---- MODULE Spec2Model ----
(***************************************************************************)
(* Engram Trace: the memory store (EngramTrace, src/src/trace.ts) and its  *)
(* consolidation engine (Consolidator, src/src/consolidator.ts).           *)
(*                                                                         *)
(* Units.  Instants are whole days since the epoch; importance is in       *)
(* hundredths (0.5 is 50); similarity thresholds are in hundredths (0.92   *)
(* is 92).  An embedding is a tuple of integers; cosine similarity is      *)
(* never computed as a real, only compared against a threshold by exact    *)
(* integer cross-multiplication.  A text is the pair (key, len): the key   *)
(* stands for its characters, len is its length.                           *)
(*                                                                         *)
(* Objects.  A memory is a JavaScript object, and the store and a running  *)
(* consolidation may hold the same object.  Field obj names the object: a  *)
(* positive number for an object the store holds or held, 0 for a copy a   *)
(* consolidation made ({ ...m, tier }) that the store has not seen yet.    *)
(***************************************************************************)
EXTENDS Integers, Sequences, FiniteSets, TLC

VARIABLES
  cfg,                       \* the TraceConfig the store was constructed with
  now,                       \* the wall clock (Date.now()), in days
  memories,                  \* EngramTrace.memories
  initialized,               \* EngramTrace.initialized
  dirty,                     \* EngramTrace.dirty
  writesSinceConsolidation,  \* EngramTrace.writesSinceConsolidation
  lastConsolidation,         \* EngramTrace.lastConsolidation (0: null)
  consolidateTimer,          \* EngramTrace.consolidateTimer, and the live intervals
  file,                      \* the .engram file on disk
  ops,                       \* operations suspended at an await
  live,                      \* accessCount and lastAccessed of shared objects
  nextId,                    \* ids handed out by crypto.randomUUID() so far
  started,                   \* number of API calls issued so far
  ret,                       \* the call that returned in the last step
  hist                       \* observations about past steps (history)

vars == <<cfg, now, memories, initialized, dirty, writesSinceConsolidation,
          lastConsolidation, consolidateTimer, file, ops, live, nextId,
          started, ret, hist>>

(***************************************************************************)
(* Bounds of the model.                                                    *)
(***************************************************************************)
MaxMems == 3
MaxPasses == 2

(***************************************************************************)
(* Program constants.                                                      *)
(***************************************************************************)
DEFAULT_everyNWrites == 100
DEFAULT_minClusterSize == 3
DEFAULT_clusterThreshold == 78
DEFAULT_hotDays == 7
DEFAULT_warmDays == 30
DEFAULT_coldDays == 365
DEFAULT_deduplicateThreshold == 92
DEFAULT_maxMemories == 10000
DEFAULT_importance == 50
ARCHIVE_KEEP == 200
SUMMARY_MIN == 10
ACCESS_BOOST_CAP == 10

HOT == "hot"
WARM == "warm"
COLD == "cold"
ARCHIVE == "archive"
MemoryTier == {HOT, WARM, COLD, ARCHIVE}

\* Position of a tier in the order HOT, WARM, COLD, ARCHIVE.
TierRank(t) ==
  CASE t = HOT -> 0 [] t = WARM -> 1 [] t = COLD -> 2 [] OTHER -> 3

UNDEFINED == "undefined"
NoMeta == [k \in {} |-> 0]

\* {...a, ...b}: the keys of both, b's value where both have one.
Spread(a, b) ==
  [k \in (DOMAIN a) \cup (DOMAIN b) |-> IF k \in DOMAIN b THEN b[k] ELSE a[k]]

Min2(a, b) == IF a <= b THEN a ELSE b
Max2(a, b) == IF a >= b THEN a ELSE b

RECURSIVE SeqSum(_)
SeqSum(s) == IF s = <<>> THEN 0 ELSE Head(s) + SeqSum(Tail(s))

\* A filter that gives what it keeps in the opposite order.
RECURSIVE DropIdxReversed(_, _, _)
DropIdxReversed(s, remove, i) ==
  IF i > Len(s) THEN <<>>
  ELSE DropIdxReversed(s, remove, i + 1)
         \o (IF i \in remove THEN <<>> ELSE <<s[i]>>)

\* s.filter((_, idx) => !remove.has(idx))
RECURSIVE DropIdx(_, _, _)
DropIdx(s, remove, i) ==
  IF i > Len(s) THEN <<>>
  ELSE (IF i \in remove THEN <<>> ELSE <<s[i]>>) \o DropIdx(s, remove, i + 1)

(***************************************************************************)
(* Vector math.                                                            *)
(***************************************************************************)
\* The Euclidean norm Math.sqrt(normA).  The embeddings of the model all
\* have a whole norm (0, 5 or 25), so that every cosine is an exact fraction.
Norms == {0, 5, 25}
Norm(a) ==
  LET sq == SeqSum([i \in 1..Len(a) |-> a[i] * a[i]])
  IN CHOOSE r \in Norms : r * r = sq

\* cosineSimilarity(a, b), in units of 1/625 (the product of two norms
\* divides 625): 0 when the lengths differ or are 0, or when a norm is 0.
SIM_UNIT == 625
cosineSimilarity(a, b) ==
  IF Len(a) # Len(b) \/ Len(a) = 0 THEN 0
  ELSE LET d == Norm(a) * Norm(b) IN
       IF d = 0 THEN 0
       ELSE (SeqSum([i \in 1..Len(a) |-> a[i] * b[i]]) * SIM_UNIT) \div d

\* cosineSimilarity(a, b) > t / 100
CosGT(a, b, t) == cosineSimilarity(a, b) * 100 > t * SIM_UNIT

\* cosineSimilarity(a, b) >= t / 100
CosGE(a, b, t) == cosineSimilarity(a, b) * 100 >= t * SIM_UNIT

(***************************************************************************)
(* Consolidator.                                                           *)
(***************************************************************************)
\* this.config = { ...DEFAULT_CONFIG, ...config }: an option not given
\* (0 stands for undefined minClusterSize, an absent field for undefined day
\* thresholds) takes its default.
ConsolidatorConfig(c) ==
  [minClusterSize |-> IF c.minClusterSize = 0 THEN DEFAULT_minClusterSize
                      ELSE c.minClusterSize,
   clusterThreshold |-> DEFAULT_clusterThreshold,
   hotDays |-> IF "hotDays" \in DOMAIN c THEN c.hotDays ELSE DEFAULT_hotDays,
   warmDays |-> IF "warmDays" \in DOMAIN c THEN c.warmDays
                ELSE DEFAULT_warmDays,
   coldDays |-> IF "coldDays" \in DOMAIN c THEN c.coldDays
                ELSE DEFAULT_coldDays,
   deduplicateThreshold |-> c.deduplicateThreshold,
   llm |-> c.llm]

\* A decay that every access speeds up.
AccessAgedExceeds(m, t, days) ==
  100 * (t - m.createdAt + m.accessCount) > days * (100 + 2 * m.importance)

\* adjustedAge > days, where adjustedAge = (ageDays - accessBoost) /
\* (1 + 2 * importance) in IEEE arithmetic: a zero multiplier gives
\* +-Infinity or NaN, a negative one flips the comparison.
AdjustedAgeExceeds(m, t, days) ==
  LET eff2 == 2 * (t - m.createdAt) - Min2(m.accessCount, ACCESS_BOOST_CAP)
      mul == 100 + 2 * m.importance
  IN IF mul > 0 THEN 50 * eff2 > days * mul
     ELSE IF mul < 0 THEN 50 * eff2 < days * mul
     ELSE eff2 > 0

\* Phase 1 on one memory: the tier after the pass.
DecayAllTiers(cc, m, t) ==
  IF m.tier = HOT /\ AdjustedAgeExceeds(m, t, cc.hotDays)
  THEN (IF AdjustedAgeExceeds(m, t, cc.warmDays)
        THEN (IF AdjustedAgeExceeds(m, t, cc.coldDays) THEN ARCHIVE ELSE COLD)
        ELSE WARM)
  ELSE IF m.tier = WARM /\ AdjustedAgeExceeds(m, t, cc.warmDays)
  THEN (IF AdjustedAgeExceeds(m, t, cc.coldDays) THEN ARCHIVE ELSE COLD)
  ELSE IF m.tier = COLD /\ AdjustedAgeExceeds(m, t, cc.coldDays) THEN ARCHIVE
  ELSE m.tier

newTier(cc, m, t) ==
  IF m.tier = HOT /\ AdjustedAgeExceeds(m, t, cc.hotDays) THEN WARM
  ELSE IF m.tier = WARM /\ AdjustedAgeExceeds(m, t, cc.warmDays) THEN COLD
  ELSE IF m.tier = COLD /\ AdjustedAgeExceeds(m, t, cc.coldDays) THEN ARCHIVE
  ELSE m.tier

\* Phase 1.
decay(cc, mems, t) ==
  [memories |-> [i \in 1..Len(mems) |->
                   IF newTier(cc, mems[i], t) # mems[i].tier
                   THEN [mems[i] EXCEPT !.tier = newTier(cc, mems[i], t),
                                        !.obj = 0]
                   ELSE mems[i]],
   changed |-> Cardinality({i \in 1..Len(mems) :
                              newTier(cc, mems[i], t) # mems[i].tier})]

\* A keep score that leaves the accesses out.
ImportanceOnly(m) == m.importance

\* The keep score of Phases 2 and 4, in hundredths.
KeepScore(m) == m.importance + m.accessCount * 10

\* The inner loop of Phase 2 for index i, from j on: the remove set after it.
RECURSIVE DedupInner(_, _, _, _, _)
DedupInner(cc, mems, i, j, remove) ==
  IF j > Len(mems) THEN remove
  ELSE IF j \in remove THEN DedupInner(cc, mems, i, j + 1, remove)
  ELSE IF CosGT(mems[i].embedding, mems[j].embedding, cc.deduplicateThreshold)
  THEN (IF KeepScore(mems[i]) >= KeepScore(mems[j])
        THEN DedupInner(cc, mems, i, j + 1, remove \cup {j})
        ELSE remove \cup {i})
  ELSE DedupInner(cc, mems, i, j + 1, remove)

\* The outer loop of Phase 2 from index i on.
RECURSIVE DedupOuter(_, _, _, _)
DedupOuter(cc, mems, i, remove) ==
  IF i > Len(mems) THEN remove
  ELSE IF i \in remove THEN DedupOuter(cc, mems, i + 1, remove)
  ELSE DedupOuter(cc, mems, i + 1, DedupInner(cc, mems, i, i + 1, remove))

\* A scan that stops looking for duplicates of i after the first one it drops.
RECURSIVE DedupInnerFirstOnly(_, _, _, _, _)
DedupInnerFirstOnly(cc, mems, i, j, remove) ==
  IF j > Len(mems) THEN remove
  ELSE IF j \in remove THEN DedupInnerFirstOnly(cc, mems, i, j + 1, remove)
  ELSE IF CosGT(mems[i].embedding, mems[j].embedding, cc.deduplicateThreshold)
  THEN (IF KeepScore(mems[i]) >= KeepScore(mems[j])
        THEN remove \cup {j} ELSE remove \cup {i})
  ELSE DedupInnerFirstOnly(cc, mems, i, j + 1, remove)

RECURSIVE DedupOuterFirstOnly(_, _, _, _)
DedupOuterFirstOnly(cc, mems, i, remove) ==
  IF i > Len(mems) THEN remove
  ELSE IF i \in remove THEN DedupOuterFirstOnly(cc, mems, i + 1, remove)
  ELSE DedupOuterFirstOnly(cc, mems, i + 1,
                           DedupInnerFirstOnly(cc, mems, i, i + 1, remove))

deduplicateFirstOnly(cc, mems) ==
  IF Len(mems) < 2 THEN [memories |-> mems, removed |-> 0]
  ELSE LET remove == DedupOuterFirstOnly(cc, mems, 1, {}) IN
       [memories |-> DropIdx(mems, remove, 1), removed |-> Cardinality(remove)]

\* Phase 2.
deduplicate(cc, mems) ==
  IF Len(mems) < 2 THEN [memories |-> mems, removed |-> 0]
  ELSE LET remove == DedupOuter(cc, mems, 1, {}) IN
       [memories |-> DropIdx(mems, remove, 1), removed |-> Cardinality(remove)]

\* A Phase 3 that takes every memory as a candidate.
AllIndices(mems) == [i \in 1..Len(mems) |-> i]

\* The candidates of Phase 3: the indices of the WARM and COLD memories.
Candidates(mems) ==
  SelectSeq([i \in 1..Len(mems) |-> i],
            LAMBDA i : mems[i].tier = WARM \/ mems[i].tier = COLD)

SeqToSet(s) == {s[i] : i \in 1..Len(s)}

\* A Phase 3 that looks for members among the candidates after the seed.
SeedClusterLater(cc, mems, cands, c, assigned) ==
  <<c>> \o SelectSeq(cands, LAMBDA o :
             /\ o > c
             /\ o \notin assigned
             /\ CosGE(mems[c].embedding, mems[o].embedding, cc.clusterThreshold))

\* The cluster seeded by candidate c: c, then every candidate not assigned
\* that is similar enough to c, in candidate order.
SeedCluster(cc, mems, cands, c, assigned) ==
  <<c>> \o SelectSeq(cands, LAMBDA o :
             /\ o \notin (assigned \cup {c})
             /\ CosGE(mems[c].embedding, mems[o].embedding, cc.clusterThreshold))

\* The loop of Phase 3 over the candidates, from the k-th on.
RECURSIVE ClusterLoop(_, _, _, _, _, _)
ClusterLoop(cc, mems, cands, k, assigned, clusters) ==
  IF k > Len(cands) THEN clusters
  ELSE IF cands[k] \in assigned
  THEN ClusterLoop(cc, mems, cands, k + 1, assigned, clusters)
  ELSE LET cl == SeedCluster(cc, mems, cands, cands[k], assigned) IN
       IF Len(cl) >= cc.minClusterSize
       THEN ClusterLoop(cc, mems, cands, k + 1, assigned \cup SeqToSet(cl),
                        Append(clusters, cl))
       ELSE ClusterLoop(cc, mems, cands, k + 1, assigned, clusters)

\* Phase 3: the clusters, each a sequence of indices into mems.
cluster(cc, mems) ==
  IF Len(mems) < cc.minClusterSize THEN <<>>
  ELSE IF Len(Candidates(mems)) < cc.minClusterSize THEN <<>>
  ELSE ClusterLoop(cc, mems, Candidates(mems), 1, {}, <<>>)

\* A Phase 4 that keeps the seed of the cluster.
SeedOf(a, rest) == a

\* clusterMemories.reduce((a, b) => score(a) >= score(b) ? a : b)
RECURSIVE BestOf(_, _)
BestOf(a, rest) ==
  IF rest = <<>> THEN a
  ELSE BestOf(IF KeepScore(a) >= KeepScore(Head(rest)) THEN a ELSE Head(rest),
              Tail(rest))

\* The lowest importance of a cluster.
RECURSIVE MinImportance(_)
MinImportance(ms) ==
  IF Len(ms) = 1 THEN ms[1].importance
  ELSE Min2(ms[1].importance, MinImportance(Tail(ms)))

\* Math.max(...clusterMemories.map(m => m.importance))
RECURSIVE MaxImportance(_)
MaxImportance(ms) ==
  IF Len(ms) = 1 THEN ms[1].importance
  ELSE Max2(ms[1].importance, MaxImportance(Tail(ms)))

\* [...new Set(tags)]: the first occurrence of each tag, in order.
RECURSIVE Uniq(_)
Uniq(s) ==
  IF s = <<>> THEN <<>>
  ELSE LET r == Uniq(SubSeq(s, 1, Len(s) - 1)) IN
       IF s[Len(s)] \in SeqToSet(r) THEN r ELSE Append(r, s[Len(s)])

\* result.findIndex(m => m.id === id); 0 stands for -1.
FindIndex(ms, id) ==
  IF \E i \in 1..Len(ms) : ms[i].id = id
  THEN CHOOSE i \in 1..Len(ms) :
         ms[i].id = id /\ \A j \in 1..(i - 1) : ms[j].id # id
  ELSE 0

\* A Phase 4 that takes whatever came back, an error too, as a summary.
AnySummary(r) == TRUE

\* An LLM response is accepted as a summary.
SummaryAccepted(r) == r.kind = "text" /\ r.len # 0 /\ r.len > SUMMARY_MIN

\* The loop of Phase 4 over the clusters, from the k-th on.  responses[k] is
\* what llm.generate gave for the k-th cluster: an error or a text.
RECURSIVE SummarizeLoop(_, _, _, _, _, _, _, _)
SummarizeLoop(mems, clusters, responses, t, k, result, toRemove, totalMerged) ==
  IF k > Len(clusters)
  THEN [memories |-> DropIdx(result, toRemove, 1), merged |-> totalMerged]
  ELSE LET cl == clusters[k]
           clusterMemories == [i \in 1..Len(cl) |-> mems[cl[i]]]
       IN IF ~SummaryAccepted(responses[k])
          THEN SummarizeLoop(mems, clusters, responses, t, k + 1, result,
                             toRemove, totalMerged)
          ELSE LET best == BestOf(Head(clusterMemories), Tail(clusterMemories))
                   rm == {idx \in SeqToSet(cl) : mems[idx].id # best.id}
                   bestIdx == FindIndex(result, best.id)
                   upd == [result[bestIdx] EXCEPT
                             !.obj = 0,
                             !.content = [key |-> "summary",
                                          len |-> responses[k].len,
                                          cut |-> FALSE],
                             !.tags = Uniq(Append(result[bestIdx].tags,
                                                  "consolidated")),
                             !.importance = MaxImportance(clusterMemories),
                             !.metadata = Spread(result[bestIdx].metadata,
                                            [consolidatedFrom |-> Len(cl),
                                             consolidatedAt |-> t])]
               IN SummarizeLoop(mems, clusters, responses, t, k + 1,
                                IF bestIdx # 0
                                THEN [result EXCEPT ![bestIdx] = upd]
                                ELSE result,
                                toRemove \cup rm,
                                totalMerged + Len(cl) - 1)

\* Phase 4.
summarizeClusters(cc, mems, clusters, responses, t) ==
  IF ~cc.llm \/ Len(clusters) = 0 THEN [memories |-> mems, merged |-> 0]
  ELSE SummarizeLoop(mems, clusters, responses, t, 1, mems, {}, 0)

\* An archive phase that cuts nothing.
Untruncated(c) == c

\* m.content.slice(0, 200) + '...'
Truncate(c) ==
  [key |-> c.key, len |-> Min2(c.len, ARCHIVE_KEEP) + 3, cut |-> TRUE]

ArchiveApplies(m) ==
  /\ m.tier = ARCHIVE
  /\ m.content.len > ARCHIVE_KEEP
  /\ "consolidated" \notin SeqToSet(m.tags)

\* Phase 5.
archive(mems) ==
  [memories |-> [i \in 1..Len(mems) |->
                   IF ArchiveApplies(mems[i])
                   THEN [mems[i] EXCEPT
                           !.obj = 0,
                           !.content = Truncate(mems[i].content),
                           !.metadata = Spread(mems[i].metadata,
                                          [truncated |-> TRUE,
                                           originalLength |-> mems[i].content.len])]
                   ELSE mems[i]],
   changed |-> Cardinality({i \in 1..Len(mems) : ArchiveApplies(mems[i])})]

countByTier(mems) ==
  [t \in MemoryTier |-> Cardinality({i \in 1..Len(mems) : mems[i].tier = t})]

\* Consolidator.consolidate up to the first LLM call: Phases 1 to 3, with the
\* clock read at t.
ConsolidateHead(cc, mems, t) ==
  LET decayed == decay(cc, mems, t)
      deduped == deduplicate(cc, decayed.memories)
  IN [input |-> mems,
      current |-> deduped.memories,
      clusters |-> cluster(cc, deduped.memories),
      memoriesDecayed |-> decayed.changed,
      duplicatesRemoved |-> deduped.removed]

\* The LLM is asked about the clusters of a head.
AsksLLM(cc, h) == cc.llm /\ Len(h.clusters) > 0

\* Consolidator.consolidate from Phase 4 on, with the clock read at t.
ConsolidateTail(cc, h, responses, t) ==
  LET summarized == IF AsksLLM(cc, h)
                    THEN summarizeClusters(cc, h.current, h.clusters, responses, t)
                    ELSE [memories |-> h.current, merged |-> 0]
      archived == archive(summarized.memories)
  IN [memories |-> archived.memories,
      report |-> [timestamp |-> t,
                  clustersFound |-> Len(h.clusters),
                  memoriesMerged |-> summarized.merged,
                  memoriesDecayed |-> h.memoriesDecayed,
                  memoriesArchived |-> archived.changed,
                  duplicatesRemoved |-> h.duplicatesRemoved,
                  before |-> [total |-> Len(h.input),
                              byTier |-> countByTier(h.input)],
                  after |-> [total |-> Len(archived.memories),
                             byTier |-> countByTier(archived.memories)]]]

\* What the LLM may answer: an error, a text of 10 characters, a longer text.
Responses ==
  {[kind |-> "error", len |-> 0], [kind |-> "text", len |-> SUMMARY_MIN],
   [kind |-> "text", len |-> SUMMARY_MIN + 30]}

\* The answers to n clusters.
ResponseSeqs(n) == [1..n -> Responses]

(***************************************************************************)
(* The inputs of the model.                                                *)
(***************************************************************************)
\* Embeddings, all of norm 25.  Cosines: V0.V1 = 0.96, V1.V2 = 0.936 (above
\* 0.92); V0.V2 = V2.V3 = 0.8 (between 0.78 and 0.92); V0.V3 = 0.28,
\* V1.V3 = 0.5376 (below 0.78).
V0 == <<25, 0>>
V1 == <<24, 7>>
V2 == <<20, 15>>
V3 == <<7, 24>>

\* The texts the callers use, and what the embedder returns for each.
Texts ==
  {[key |-> "t0", len |-> 250, cut |-> FALSE],
   [key |-> "t1", len |-> 20, cut |-> FALSE],
   [key |-> "t2", len |-> 250, cut |-> FALSE],
   [key |-> "t3", len |-> 200, cut |-> FALSE]}

Embed(text) ==
  CASE text.key = "t0" -> V0
    [] text.key = "t1" -> V1
    [] text.key = "t2" -> V2
    [] OTHER -> V3

\* The first instant of the model, in days since the epoch.
Clock0 == 20000
\* The clock advances by this many days at a time.
TickDays == 40
MaxTicks == 1

\* The store's configuration after the constructor, for a TraceConfig that
\* gives only `file`.  0 stands for an option of autoConsolidate that is not
\* given (everyNWrites, minClusterSize), and -1 for intervalMs not given.
DefaultConfig ==
  [llm |-> FALSE,
   autoRemember |-> TRUE,
   minImportance |-> 30,
   defaultTags |-> <<>>,
   autoConsolidate |-> TRUE,
   everyNWrites |-> 0,
   intervalMs |-> 0 - 1,
   minClusterSize |-> 0,
   deduplicateThreshold |-> DEFAULT_deduplicateThreshold,
   maxMemories |-> DEFAULT_maxMemories]

\* TraceConfig.autoConsolidate: omitted, a boolean, or an object.
OmittedOption ==
  [kind |-> "omitted", value |-> FALSE, everyNWrites |-> 0,
   intervalMs |-> 0 - 1, minClusterSize |-> 0]
BooleanOption(b) == [OmittedOption EXCEPT !.kind = "boolean", !.value = b]
ObjectOption(everyNWrites, intervalMs, minClusterSize) ==
  [kind |-> "object", value |-> TRUE, everyNWrites |-> everyNWrites,
   intervalMs |-> intervalMs, minClusterSize |-> minClusterSize]

\* The constructor: a boolean autoConsolidate leaves consolidateConfig empty,
\* an object becomes consolidateConfig, and auto-consolidation is on unless
\* the boolean is false.  maxMemories -1 stands for the option not given.
constructor(autoConsolidate, llm, maxMemories) ==
  LET consolidateConfig == IF autoConsolidate.kind = "object"
                           THEN autoConsolidate ELSE OmittedOption
  IN [DefaultConfig EXCEPT
        !.llm = llm,
        !.autoConsolidate = IF autoConsolidate.kind = "boolean"
                            THEN autoConsolidate.value ELSE TRUE,
        !.everyNWrites = consolidateConfig.everyNWrites,
        !.intervalMs = consolidateConfig.intervalMs,
        !.minClusterSize = consolidateConfig.minClusterSize,
        !.maxMemories = IF maxMemories = 0 - 1 THEN DEFAULT_maxMemories
                        ELSE maxMemories]

NullReport ==
  [timestamp |-> 0, clustersFound |-> 0, memoriesMerged |-> 0,
   memoriesDecayed |-> 0, memoriesArchived |-> 0, duplicatesRemoved |-> 0,
   before |-> [total |-> 0, byTier |-> countByTier(<<>>)],
   after |-> [total |-> 0, byTier |-> countByTier(<<>>)]]

NoTimer == [handle |-> FALSE, intervals |-> 0]
\* The file: the nodes of the container form, or the memories of the JSON
\* form that the catch block of save() writes.
NoFile == [exists |-> FALSE, nodes |-> <<>>, json |-> <<>>]
NoLive == [o \in {} |-> 0]

\* What a call hands back: the ClassificationResult of process, the count of
\* forget, the ids and scores of the RecallResult[] of recall; and the id of
\* the memory that the call has pushed (0 when it has pushed none).
NoValue ==
  [result |-> [shouldRemember |-> FALSE, importance |-> 0, reason |-> "",
               suggestedTags |-> <<>>],
   removed |-> 0, results |-> <<>>, id |-> 0]
NoRet ==
  [op |-> "none", cid |-> 0, ok |-> TRUE, stored |-> FALSE, value |-> NoValue]

\* History: the number of consolidator passes made, the instants of the last
\* two, the input, the clusters, the LLM's answers and the report of the
\* last, and the report of the one before; the ids that have been in the store, those that forget
\* or a consolidation removed, and those that a forget call removed; the
\* number of embedder and file-system failures.
Hist0 ==
  [passes |-> 0, at |-> 0, prevAt |-> 0, input |-> <<>>, prevInput |-> <<>>,
   clusters |-> <<>>, responses |-> <<>>, report |-> NullReport,
   prevReport |-> NullReport,
   ticks |-> 0, ever |-> {}, gone |-> {}, forgotten |-> {}, faults |-> 0]

(***************************************************************************)
(* The consolidator alone: Consolidator.consolidate applied, pass after    *)
(* pass, to a memory sequence drawn from a bounded set.                    *)
(***************************************************************************)
\* Tier and age (days before Clock0) of a drawn memory.
TierAges ==
  {<<HOT, 5>>, <<HOT, 40>>, <<WARM, 40>>, <<COLD, 500>>, <<ARCHIVE, 500>>}

\* Importance and accessCount of a drawn memory.
Scores == {<<10, 0>>, <<50, 0>>}

DrawnMemory(i, ta, sc, text) ==
  [id |-> i, obj |-> i, content |-> text, embedding |-> Embed(text),
   tags |-> <<>>,
   importance |-> sc[1], tier |-> ta[1], createdAt |-> Clock0 - ta[2],
   lastAccessed |-> Clock0 - ta[2], accessCount |-> sc[2],
   source |-> UNDEFINED, metadata |-> NoMeta]

\* The sequences of n drawn memories, in insertion order (createdAt does not
\* decrease along the sequence).
DrawnSeqs(n) ==
  {[i \in 1..n |-> DrawnMemory(i, f[i][1], f[i][2], f[i][3])] :
     f \in {g \in [1..n -> TierAges \X Scores \X Texts] :
              \A i \in 1..(n - 1) : g[i][1][2] >= g[i + 1][1][2]}}

ConsConfigs ==
  {DefaultConfig, [DefaultConfig EXCEPT !.llm = TRUE, !.minClusterSize = 2]}

ConsInit ==
  /\ cfg \in ConsConfigs
  /\ now = Clock0
  /\ \E n \in 0..MaxMems : memories \in DrawnSeqs(n)
  /\ initialized = TRUE
  /\ dirty = FALSE
  /\ writesSinceConsolidation = 0
  /\ lastConsolidation = 0
  /\ consolidateTimer = NoTimer
  /\ file = NoFile
  /\ ops = <<>>
  /\ live = NoLive
  /\ nextId = 0
  /\ started = 0
  /\ ret = NoRet
  /\ hist = Hist0

ConsFrame ==
  UNCHANGED <<cfg, initialized, dirty, writesSinceConsolidation,
              lastConsolidation, consolidateTimer, file, ops, live, nextId,
              started, ret>>

\* One call of Consolidator.consolidate on the current sequence.
ConsPass ==
  /\ hist.passes < MaxPasses
  /\ LET cc == ConsolidatorConfig(cfg)
         h == ConsolidateHead(cc, memories, now)
     IN \E responses \in ResponseSeqs(Len(h.clusters)) :
          LET r == ConsolidateTail(cc, h, responses, now) IN
          /\ memories' = r.memories
          /\ hist' = [hist EXCEPT !.passes = @ + 1, !.at = now,
                                  !.prevAt = hist.at, !.input = memories,
                                  !.prevInput = hist.input,
                                  !.clusters = h.clusters,
                                  !.responses = IF AsksLLM(cc, h)
                                                THEN responses ELSE <<>>,
                                  !.report = r.report,
                                  !.prevReport = hist.report]
  /\ UNCHANGED now
  /\ ConsFrame

\* Time passes between two calls.
ConsTick ==
  /\ hist.passes >= 1
  /\ hist.ticks < MaxTicks
  /\ now' = now + TickDays
  /\ hist' = [hist EXCEPT !.ticks = @ + 1]
  /\ UNCHANGED memories
  /\ ConsFrame

ConsNext == ConsPass \/ ConsTick

ConsSpec == ConsInit /\ [][ConsNext]_vars

(***************************************************************************)
(* Properties of the consolidator (checked under ConsSpec).                *)
(***************************************************************************)
\* The memory of sequence ms with the id of m (ids are unique in a sequence).
ById(ms, id) == ms[FindIndex(ms, id)]
HasId(ms, id) == FindIndex(ms, id) # 0

\* C6.  Post-consolidation dedup: in the memory sequence a consolidate call
\* produced, no two memories have cosine similarity above
\* deduplicateThreshold.
C6_PostConsolidationDedup ==
  hist.passes >= 1 =>
    \A i, j \in 1..Len(memories) :
      i < j => ~CosGT(memories[i].embedding, memories[j].embedding,
                      ConsolidatorConfig(cfg).deduplicateThreshold)

\* A pass that was given duplicates and removed some.
C6_Witness ==
  /\ hist.passes = 1
  /\ hist.report.duplicatesRemoved > 0
  /\ Len(memories) >= 2

\* C8.  One pass advances a tier by at most one step: every memory that
\* comes out of a pass is at most one tier after the tier it went in with,
\* and a HOT memory whose adjustedAge exceeds hotDays comes out WARM, also
\* when its adjustedAge exceeds warmDays too.
C8_OneTierPerPass ==
  hist.passes >= 1 =>
    \A i \in 1..Len(memories) :
      LET m == memories[i]
          old == ById(hist.input, m.id)
      IN /\ HasId(hist.input, m.id)
         /\ TierRank(m.tier) <= TierRank(old.tier) + 1
         /\ TierRank(m.tier) >= TierRank(old.tier)
         /\ (old.tier = HOT /\ AdjustedAgeExceeds(old, hist.at, DEFAULT_hotDays))
              => m.tier = WARM

\* A HOT memory older than both hotDays and warmDays, WARM after the first
\* pass and COLD after the second.
C8_Witness ==
  /\ hist.passes = 2
  /\ \E i \in 1..Len(memories) :
       /\ memories[i].tier = COLD
       /\ HasId(hist.input, memories[i].id)
       /\ ById(hist.input, memories[i].id).tier = WARM
       /\ HasId(hist.prevInput, memories[i].id)
       /\ ById(hist.prevInput, memories[i].id).tier = HOT
       /\ AdjustedAgeExceeds(ById(hist.prevInput, memories[i].id),
                             hist.prevAt, DEFAULT_warmDays)

\* Two passes in succession, the second at the instant of the first.
TwoPassesSameInstant == hist.passes = 2 /\ hist.at = hist.prevAt /\ now = hist.at

\* C9 as stated.  Idempotence on tiers: the second of two calls in
\* succession at one instant changes no memory's tier (memoriesDecayed = 0).
C9_Original_SecondPassDecaysNothing ==
  TwoPassesSameInstant => hist.report.memoriesDecayed = 0

\* C9 as amended.  The second of two calls in succession at one instant
\* changes the tier only of memories whose tier the first call changed, so it
\* decays no more memories than the first did, and none when the first
\* decayed none.
C9_SecondPassDecaysOnlyDecayed ==
  TwoPassesSameInstant =>
    /\ \A i \in 1..Len(memories) :
         LET id == memories[i].id IN
         memories[i].tier # ById(hist.input, id).tier
           => ById(hist.input, id).tier # ById(hist.prevInput, id).tier
    /\ hist.report.memoriesDecayed <= hist.prevReport.memoriesDecayed

\* Two calls at one instant, of which the second still decayed a memory.
C9_Witness ==
  /\ TwoPassesSameInstant
  /\ hist.report.memoriesDecayed > 0
  /\ hist.prevReport.memoriesDecayed > hist.report.memoriesDecayed

\* C10 as stated.  Idempotence on removals: the second of two calls in
\* succession removes no duplicates and merges no clusters.
C10_Original_SecondPassRemovesNothing ==
  hist.passes = 2 =>
    hist.report.duplicatesRemoved = 0 /\ hist.report.memoriesMerged = 0

\* C10 as amended.  The second of two calls in succession removes no
\* duplicates, and merges no clusters when no LLM is configured.
C10_SecondPassNoDuplicates ==
  hist.passes = 2 =>
    /\ hist.report.duplicatesRemoved = 0
    /\ ~cfg.llm => hist.report.memoriesMerged = 0

\* A second call after a first one that removed duplicates and, with an LLM,
\* merged a cluster.
C10_Witness ==
  /\ hist.passes = 2
  /\ hist.prevReport.duplicatesRemoved > 0
  /\ hist.prevReport.memoriesMerged > 0
  /\ Len(memories) >= 1

(***************************************************************************)
(* EngramTrace: the store, its file, and the operations suspended at an    *)
(* await.                                                                  *)
(***************************************************************************)
MaxCalls == 4
MaxInFlight == 2

\* obj[key], or undefined when the object has no such key.
Get(obj, key) == IF key \in DOMAIN obj THEN obj[key] ELSE UNDEFINED

\* save(): the node written for one memory.  custom lists the store's fields
\* first and spreads m.metadata after them.
NodeOf(m) ==
  [id |-> m.id,
   content |-> m.content,
   embedding |-> m.embedding,
   temporal |-> [created |-> m.createdAt, accessed |-> m.lastAccessed,
                 decayTier |-> m.tier],
   quality |-> [score |-> m.importance,
                source |-> IF m.source = UNDEFINED THEN "trace" ELSE m.source],
   custom |-> Spread([tags |-> m.tags, importance |-> m.importance,
                      tier |-> m.tier, createdAt |-> m.createdAt,
                      lastAccessed |-> m.lastAccessed,
                      accessCount |-> m.accessCount, source |-> m.source],
                     m.metadata)]

\* save(): const nodes = this.memories.map(...)
SaveNodes(mems) == [i \in 1..Len(mems) |-> NodeOf(mems[i])]

\* load(): a node without content or with empty content is skipped.
NodeLoads(node) == node.content.len # 0

\* load(): the memory pushed for one node, as the object obj, at instant t.
LoadMemory(node, obj, t) ==
  LET custom == node.custom IN
  [id |-> node.id,
   obj |-> obj,
   content |-> node.content,
   embedding |-> node.embedding,
   tags |-> IF "tags" \in DOMAIN custom THEN custom["tags"] ELSE <<>>,
   importance |-> IF "importance" \in DOMAIN custom THEN custom["importance"]
                  ELSE node.quality.score,
   tier |-> IF "tier" \in DOMAIN custom THEN custom["tier"]
            ELSE node.temporal.decayTier,
   createdAt |-> IF node.temporal.created # 0 THEN node.temporal.created
                 ELSE t,
   lastAccessed |-> IF node.temporal.accessed # 0 THEN node.temporal.accessed
                    ELSE t,
   accessCount |-> IF "accessCount" \in DOMAIN custom
                   THEN custom["accessCount"] ELSE 0,
   source |-> Get(custom, "source"),
   metadata |-> custom]

\* load(): the memories read from the nodes of a file; the objects are new,
\* numbered from base + 1.
LoadNodes(nodes, base, t) ==
  LET kept == SelectSeq(nodes, NodeLoads)
  IN [i \in 1..Len(kept) |-> LoadMemory(kept[i], base + i, t)]

\* load(): readEngramFile gives the nodes of the file; a file that is
\* missing, is not a container or has no nodes leaves the store as it is.
\* Nothing reads the `memories` of the JSON form.
load(f, base, t) ==
  IF f.exists THEN LoadNodes(f.nodes, base, t) ELSE <<>>

\* RememberOptions; importance -1 stands for an importance that is not given.
NoOptions ==
  [importance |-> 0 - 1, tags |-> <<>>, source |-> UNDEFINED,
   metadata |-> NoMeta]

\* store(): the memory created for a content, at instant t.
NewMemory(id, content, embedding, options, t) ==
  [id |-> id,
   obj |-> id,
   content |-> content,
   embedding |-> embedding,
   tags |-> options.tags,
   importance |-> IF options.importance = 0 - 1 THEN DEFAULT_importance
                  ELSE options.importance,
   tier |-> HOT,
   createdAt |-> t,
   lastAccessed |-> t,
   accessCount |-> 0,
   source |-> options.source,
   metadata |-> options.metadata]

\* store(): the write-threshold condition, with w writes since the last
\* consolidation.  An everyNWrites that is not given is falsy.
ThresholdReached(c, w) ==
  /\ c.autoConsolidate
  /\ c.everyNWrites # 0
  /\ w >= (IF c.everyNWrites = 0 THEN DEFAULT_everyNWrites ELSE c.everyNWrites)

\* store(): the hard-limit condition.
OverLimit(c, mems) == Len(mems) > c.maxMemories

\* The ids of a memory sequence.
Ids(mems) == {mems[i].id : i \in 1..Len(mems)}

\* The objects a memory sequence shares with its source (obj 0 is a copy
\* the consolidator made, which nothing else refers to).
Objs(mems) == {mems[i].obj : i \in 1..Len(mems)} \ {0}

\* recall(): the tier boost, in hundredths.
TierBoost(tier) ==
  CASE tier = HOT -> 110 [] tier = WARM -> 100 [] tier = COLD -> 95
    [] OTHER -> 85

\* recall(): the score of a memory for a query embedding, times
\* SIM_UNIT * 100 * 500 (1 + importance * 0.2 is (500 + importance) / 500
\* with importance in hundredths).
SCORE_UNIT == 500
Score(q, m, ropts) ==
  cosineSimilarity(q, m.embedding)
    * (IF ropts.decayBoost THEN TierBoost(m.tier) ELSE 100)
    * (SCORE_UNIT + m.importance)

\* RecallOptions with every option at its default.
DefaultRecall ==
  [limit |-> 8, minScore |-> 15, tiers |-> {}, tags |-> {},
   decayBoost |-> TRUE]

\* recall(): the candidates that pass the tier filter and the tag filter,
\* each with its score, those below minScore left out; in store order.  A
\* result holds the position of its memory in the store, its id and score.
Scored(mems, q, ropts) ==
  LET all == [i \in 1..Len(mems) |->
                [pos |-> i, id |-> mems[i].id,
                 score |-> Score(q, mems[i], ropts)]]
      Keep(r) ==
        /\ ropts.tiers = {} \/ mems[r.pos].tier \in ropts.tiers
        /\ ropts.tags = {}
             \/ \E k \in 1..Len(mems[r.pos].tags) :
                  mems[r.pos].tags[k] \in ropts.tags
        /\ r.score >= ropts.minScore * SIM_UNIT * SCORE_UNIT
  IN SelectSeq(all, Keep)

\* A recall that does not sort: every result goes to the end.
AppendUnsorted(sorted, x) == Append(sorted, x)

\* scored.sort((a, b) => b.score - a.score): descending, and stable, so a
\* result goes behind those of equal score that came before it.
InsertByScore(sorted, x) ==
  LET n == Cardinality({a \in 1..Len(sorted) : sorted[a].score >= x.score})
  IN SubSeq(sorted, 1, n) \o <<x>> \o SubSeq(sorted, n + 1, Len(sorted))

RECURSIVE SortByScore(_, _)
SortByScore(sorted, rest) ==
  IF rest = <<>> THEN sorted
  ELSE SortByScore(InsertByScore(sorted, Head(rest)), Tail(rest))

\* recall(): the RecallResult[] returned: scored.slice(0, limit).
RecallResults(mems, q, ropts) ==
  LET sorted == SortByScore(<<>>, Scored(mems, q, ropts))
  IN SubSeq(sorted, 1, Min2(ropts.limit, Len(sorted)))

\* recall(): the positions of the memories returned.
Recalled(mems, q, ropts) ==
  LET results == RecallResults(mems, q, ropts)
  IN {results[a].pos : a \in 1..Len(results)}

\* A recall that counts an access for every memory of the store.
TouchAll(mems, sel, t) ==
  [i \in 1..Len(mems) |->
     [mems[i] EXCEPT !.accessCount = @ + 1, !.lastAccessed = t]]

\* recall(): r.memory.accessCount++ and r.memory.lastAccessed = now, in place.
Touch(mems, sel, t) ==
  [i \in 1..Len(mems) |->
     IF i \in sel
     THEN [mems[i] EXCEPT !.accessCount = @ + 1, !.lastAccessed = t]
     ELSE mems[i]]

\* forget(): the default threshold, and the filter `sim < threshold`.
DEFAULT_forgetThreshold == 80
ForgetKeeps(q, m) == ~CosGE(q, m.embedding, DEFAULT_forgetThreshold)

\* Classifier: what the patterns find in a conversation turn.  explicitUser:
\* EXPLICIT_REMEMBER matches the trimmed user utterance; explicitAssistant:
\* it matches the assistant utterance.
NoTurn ==
  [userLen |-> 0, skip |-> FALSE, greeting |-> FALSE, filler |-> FALSE,
   explicitUser |-> FALSE, explicitAssistant |-> FALSE,
   decision |-> FALSE, lesson |-> FALSE,
   preference |-> FALSE, identity |-> FALSE, factual |-> FALSE,
   technical |-> FALSE, wordCount |-> 0, code |-> FALSE,
   text |-> [key |-> "", len |-> 0, cut |-> FALSE]]

\* A verdict that rejects nothing.
Unrejected(reason) ==
  [shouldRemember |-> TRUE, importance |-> 0, reason |-> reason,
   suggestedTags |-> <<>>]

Rejected(reason) ==
  [shouldRemember |-> FALSE, importance |-> 0, reason |-> reason,
   suggestedTags |-> <<>>]

\* A classifier that matches the explicit rule against both utterances.
ExplicitAnywhere(turn) == turn.explicitUser \/ turn.explicitAssistant

\* EXPLICIT_REMEMBER.test(userTrimmed)
ExplicitMatches(turn) == turn.explicitUser

\* The tags pushed by the rules, in the order of the rules.
RuleTags(turn) ==
  (IF ExplicitMatches(turn) THEN <<"explicit">> ELSE <<>>)
    \o (IF turn.decision THEN <<"decision">> ELSE <<>>)
    \o (IF turn.lesson THEN <<"lesson">> ELSE <<>>)
    \o (IF turn.preference THEN <<"preference">> ELSE <<>>)
    \o (IF turn.identity THEN <<"identity">> ELSE <<>>)
    \o (IF turn.factual THEN <<"factual">> ELSE <<>>)
    \o (IF turn.technical THEN <<"technical">> ELSE <<>>)
    \o (IF turn.code /\ ~turn.technical THEN <<"technical">> ELSE <<>>)
    \o (IF turn.code THEN <<"code">> ELSE <<>>)

\* The importance reached by the rules, before the fallback.
RuleImportance(turn) ==
  LET i1 == IF ExplicitMatches(turn) THEN 95 ELSE 0
      i2 == IF turn.decision \/ turn.lesson THEN Max2(i1, 85) ELSE i1
      i3 == IF turn.preference \/ turn.identity THEN Max2(i2, 80) ELSE i2
      i4 == IF turn.factual THEN Max2(i3, 60) ELSE i3
      i5 == IF turn.technical THEN Max2(i4, 50) ELSE i4
      i6 == IF turn.wordCount > 200 /\ i5 < 40 THEN Max2(i5, 40) ELSE i5
  IN IF turn.code THEN Max2(i6, 45) ELSE i6

\* A classifier that gives no reason.
NoReason(turn) == ""

\* The reason of the first rule that matched.
RuleReason(turn) ==
  CASE ExplicitMatches(turn) -> "explicit remember command"
    [] turn.decision -> "contains decision"
    [] turn.lesson -> "contains lesson/insight"
    [] turn.preference -> "contains preference"
    [] turn.identity -> "contains identity information"
    [] turn.factual -> "contains factual/config data"
    [] turn.technical -> "contains technical discussion"
    [] turn.wordCount > 200 -> "substantive exchange (length)"
    [] OTHER -> ""

\* A classifier whose dedup check never finds a similar memory.
NoSimilarity(q, existing, threshold) == FALSE

\* Classifier.maxCosineSimilarity(query, candidates) > threshold / 100
MaxSimilarityGT(q, existing, threshold) ==
  \E i \in 1..Len(existing) :
    /\ Len(existing[i]) = Len(q)
    /\ LET d == Norm(q) * Norm(existing[i])
           sim == IF d = 0 THEN 0
                  ELSE (SeqSum([k \in 1..Len(q) |-> q[k] * existing[i][k]])
                          * SIM_UNIT) \div d
       IN sim * 100 > threshold * SIM_UNIT

\* Classifier.classify(userMessage, assistantResponse, existing, embedding)
classify(c, turn, existing, embedding) ==
  IF turn.userLen < 10 THEN Rejected("too short")
  ELSE IF turn.skip THEN Rejected("acknowledgment/filler")
  ELSE IF turn.greeting THEN Rejected("greeting")
  ELSE IF turn.filler THEN Rejected("filler")
  ELSE IF Len(existing) > 0
          /\ MaxSimilarityGT(embedding, existing, c.deduplicateThreshold)
  THEN [shouldRemember |-> FALSE, importance |-> RuleImportance(turn),
        reason |-> "duplicate", suggestedTags |-> RuleTags(turn)]
  ELSE IF RuleImportance(turn) = 0 /\ turn.wordCount <= 30
  THEN Rejected("no importance signals")
  ELSE LET importance == IF RuleImportance(turn) = 0 THEN 20
                         ELSE RuleImportance(turn)
       IN [shouldRemember |-> importance >= c.minImportance,
           importance |-> importance,
           reason |-> IF RuleImportance(turn) = 0 THEN "general conversation"
                      ELSE RuleReason(turn),
           suggestedTags |-> RuleTags(turn)]

\* A process that stores with the options of a plain remember.
PlainOptions(c, result) == NoOptions

\* process(): the options of the store call for an accepted turn.
AutoOptions(c, result) ==
  [importance |-> result.importance,
   tags |-> c.defaultTags \o result.suggestedTags,
   source |-> "auto",
   metadata |-> [k \in {"reason"} |-> result.reason]]

(***************************************************************************)
(* Operations in flight.  An operation runs to its next await in one step; *)
(* ops holds the suspended ones, in the order in which they suspended.     *)
(***************************************************************************)
NewOp(op, pc, cid, parent, data) ==
  [op |-> op, pc |-> pc, cid |-> cid, parent |-> parent, data |-> data,
   value |-> NoValue]

RemoveAt(s, k) ==
  [i \in 1..(Len(s) - 1) |-> IF i < k THEN s[i] ELSE s[i + 1]]

\* An await of a promise that is already settled: the continuation is a
\* microtask, which runs before anything that is queued after it, before any
\* timer, and before the clock moves on by days.
IsHop(o) == o.pc \in {"await", "classify"}
HopPending == \E k \in 1..Len(ops) : IsHop(ops[k])
CanResume(k) == \A j \in 1..(k - 1) : ~IsHop(ops[j])

CanCall == started < MaxCalls /\ Len(ops) < MaxInFlight

Returned(op, cid, stored) ==
  [op |-> op, cid |-> cid, ok |-> TRUE, stored |-> stored, value |-> NoValue]
Threw(op, cid) ==
  [op |-> op, cid |-> cid, ok |-> FALSE, stored |-> FALSE, value |-> NoValue]

\* consolidate() up to its first suspension, on the memories mems at instant
\* t: Consolidator.consolidate runs to its first LLM call, or to its end
\* when it makes none, and the caller then awaits its promise.
ConsolidateCall(c, mems, t, cid, parent) ==
  LET cc == ConsolidatorConfig(c)
      h == ConsolidateHead(cc, mems, t)
  IN IF AsksLLM(cc, h)
     THEN NewOp("consolidate", "llm", cid, parent, h)
     ELSE LET r == ConsolidateTail(cc, h, <<>>, t)
          IN NewOp("consolidate", "await", cid, parent,
                   [inputIds |-> Ids(mems), memories |-> r.memories,
                    report |-> r.report])

\* The objects of the store that a suspended consolidation still refers to.
JobObjs(o) ==
  IF o.op = "consolidate" /\ o.pc = "llm" THEN Objs(o.data.current)
  ELSE IF o.op = "consolidate" /\ o.pc = "await" THEN Objs(o.data.memories)
  ELSE {}

\* The fields that recall changes in place, for every object a suspended
\* consolidation refers to: as in the store while the object is there, as
\* they were when it left otherwise.
LiveOf(mems, opsSeq, old) ==
  LET need == UNION {JobObjs(opsSeq[k]) : k \in 1..Len(opsSeq)}
  IN [o \in need |->
        IF \E i \in 1..Len(mems) : mems[i].obj = o
        THEN LET i == CHOOSE i \in 1..Len(mems) : mems[i].obj = o
             IN [accessCount |-> mems[i].accessCount,
                 lastAccessed |-> mems[i].lastAccessed]
        ELSE old[o]]

\* A sequence held by a suspended consolidation, read now: its shared objects
\* show what recall has done to them since.
Refresh(list, lv) ==
  [i \in 1..Len(list) |->
     IF list[i].obj # 0
     THEN [list[i] EXCEPT !.accessCount = lv[list[i].obj].accessCount,
                          !.lastAccessed = lv[list[i].obj].lastAccessed]
     ELSE list[i]]

\* The copies among the first i entries of a sequence.
Copies(list, i) == Cardinality({j \in 1..i : list[j].obj = 0})

\* A consolidator's result once it is the store's sequence: its copies are
\* objects of their own, numbered from base + 1.
Materialize(list, base) ==
  [i \in 1..Len(list) |->
     IF list[i].obj = 0 THEN [list[i] EXCEPT !.obj = base + Copies(list, i)]
     ELSE list[i]]

TextOf(key) == CHOOSE x \in Texts : x.key = key

(***************************************************************************)
(* The facade's initial states.                                            *)
(***************************************************************************)
\* The configurations: a small store without LLM, with the interval timer;
\* a store with an LLM, clusters of 2, a write threshold of 2, and no timer.
Configs ==
  {constructor(OmittedOption, FALSE, 1),
   constructor(ObjectOption(2, 0, 2), TRUE, 2)}

\* The store of an earlier session, which remembered two texts TickDays ago
\* and closed.
EarlierOptions == [NoOptions EXCEPT !.importance = 10]
EarlierSession ==
  <<NewMemory(1, TextOf("t0"), Embed(TextOf("t0")), EarlierOptions,
              Clock0 - TickDays),
    NewMemory(2, TextOf("t2"), Embed(TextOf("t2")), EarlierOptions,
              Clock0 - TickDays)>>

\* The file before init: absent, or as the earlier session saved it.
InitFiles ==
  {NoFile, [NoFile EXCEPT !.exists = TRUE, !.nodes = SaveNodes(EarlierSession)]}

Init ==
  /\ cfg \in Configs
  /\ now = Clock0
  /\ memories = <<>>
  /\ initialized = FALSE
  /\ dirty = FALSE
  /\ writesSinceConsolidation = 0
  /\ lastConsolidation = 0
  /\ consolidateTimer = NoTimer
  /\ file \in InitFiles
  /\ ops = <<>>
  /\ live = NoLive
  /\ nextId = Len(EarlierSession)
  /\ started = 0
  /\ ret = NoRet
  /\ hist = Hist0

(***************************************************************************)
(* The facade's operations.                                                *)
(***************************************************************************)
\* What the callers pass.
RememberTexts == {TextOf("t1"), TextOf("t3")}
RememberOptions == {NoOptions}
TurnAck ==
  [NoTurn EXCEPT !.userLen = 2, !.skip = TRUE, !.wordCount = 2,
                 !.text = TextOf("t3")]
TurnDecision ==
  [NoTurn EXCEPT !.userLen = 40, !.decision = TRUE, !.wordCount = 12,
                 !.text = TextOf("t1")]
Turns == {TurnAck, TurnDecision}
RecallQueries == {TextOf("t0")}
ForgetQueries == {TextOf("t3")}

\* init(): returns at once when initialized, else suspends at mkdir/load.
CallInit ==
  /\ CanCall
  /\ started' = started + 1
  /\ IF initialized
     THEN /\ ret' = Returned("init", started + 1, FALSE)
          /\ UNCHANGED ops
     ELSE /\ ops' = Append(ops, NewOp("init", "load", started + 1, "api", <<>>))
          /\ ret' = NoRet
  /\ UNCHANGED <<cfg, now, memories, initialized, dirty,
                 writesSinceConsolidation, lastConsolidation,
                 consolidateTimer, file, live, nextId, hist>>

\* init(): load() pushes the file's memories, the timer is armed, and
\* initialized is set.
ResumeInit(k) ==
  /\ ops[k].op = "init"
  /\ CanResume(k)
  /\ LET loaded == load(file, nextId, now)
     IN /\ memories' = memories \o loaded
        /\ nextId' = nextId + Len(loaded)
        /\ hist' = [hist EXCEPT !.ever = @ \cup Ids(loaded)]
  /\ consolidateTimer' =
       IF cfg.autoConsolidate /\ cfg.intervalMs # 0
       THEN [handle |-> TRUE, intervals |-> consolidateTimer.intervals + 1]
       ELSE consolidateTimer
  /\ initialized' = TRUE
  /\ ops' = RemoveAt(ops, k)
  /\ live' = LiveOf(memories', ops', live)
  /\ ret' = Returned("init", ops[k].cid, FALSE)
  /\ UNCHANGED <<cfg, now, dirty, writesSinceConsolidation,
                 lastConsolidation, file, started>>

\* ensureInit() throws in bootstrap, remember, process, recall, forget and
\* consolidate (an initialized bootstrap is four recall calls).
CallBeforeInit ==
  /\ ~initialized
  /\ CanCall
  /\ started' = started + 1
  /\ \E op \in {"bootstrap", "remember", "process", "recall", "forget",
                 "consolidate"} :
       ret' = Threw(op, started + 1)
  /\ UNCHANGED <<cfg, now, memories, initialized, dirty,
                 writesSinceConsolidation, lastConsolidation,
                 consolidateTimer, file, ops, live, nextId, hist>>

\* A call that suspends at embedder.embed.
CallEmbed(op, data) ==
  /\ initialized
  /\ CanCall
  /\ started' = started + 1
  /\ ops' = Append(ops, NewOp(op, "embed", started + 1, "api", data))
  /\ ret' = NoRet
  /\ UNCHANGED <<cfg, now, memories, initialized, dirty,
                 writesSinceConsolidation, lastConsolidation,
                 consolidateTimer, file, live, nextId, hist>>

\* remember(content, options)
CallRemember ==
  \E text \in RememberTexts, options \in RememberOptions :
    CallEmbed("remember", [text |-> text, options |-> options])

\* store(content, embedding, options), called by the operation op of call
\* cid while the operations rest stay suspended: the push, the
\* write-threshold trigger, the hard-limit check; value is what the caller
\* returns once store has.
Store(rest, op, cid, content, embedding, options, value) ==
  LET m == NewMemory(nextId + 1, content, embedding, options, now)
      mems1 == Append(memories, m)
      w1 == writesSinceConsolidation + 1
      auto == IF ThresholdReached(cfg, w1)
              THEN <<ConsolidateCall(cfg, mems1, now, 0, "threshold")>>
              ELSE <<>>
      forced == IF OverLimit(cfg, mems1)
                THEN <<[ConsolidateCall(cfg, mems1, now, cid, op)
                         EXCEPT !.value = [value EXCEPT !.id = m.id]]>>
                ELSE <<>>
  IN /\ memories' = mems1
     /\ dirty' = TRUE
     /\ writesSinceConsolidation' = w1
     /\ nextId' = nextId + 1
     /\ ops' = rest \o auto \o forced
     /\ ret' = IF forced = <<>>
               THEN [Returned(op, cid, TRUE)
                       EXCEPT !.value = [value EXCEPT !.id = m.id]]
               ELSE NoRet
     /\ hist' = [hist EXCEPT !.ever = @ \cup {m.id}]
     /\ live' = LiveOf(mems1, ops', live)
     /\ UNCHANGED <<cfg, now, initialized, lastConsolidation,
                    consolidateTimer, file>>

\* remember(): the embedding arrives.
ResumeRemember(k) ==
  /\ ops[k].op = "remember"
  /\ CanResume(k)
  /\ Store(RemoveAt(ops, k), "remember", ops[k].cid, ops[k].data.text,
           Embed(ops[k].data.text), ops[k].data.options, NoValue)
  /\ UNCHANGED started

\* process(userMessage, assistantResponse), for the turn that the two
\* utterances make.
Process(turn) ==
  IF cfg.autoRemember
  THEN CallEmbed("process", [turn |-> turn, result |-> Rejected("")])
  ELSE /\ initialized
       /\ CanCall
       /\ started' = started + 1
       /\ ret' = [Returned("process", started + 1, FALSE)
                    EXCEPT !.value.result = Rejected("auto-remember disabled")]
       /\ UNCHANGED <<cfg, now, memories, initialized, dirty,
                      writesSinceConsolidation, lastConsolidation,
                      consolidateTimer, file, ops, live, nextId, hist>>

CallProcess == \E turn \in Turns : Process(turn)

\* process(): the embedding arrives; the turn is classified against the
\* embeddings in the store, and the caller awaits the classifier's promise.
ResumeProcessEmbed(k) ==
  /\ ops[k].op = "process"
  /\ ops[k].pc = "embed"
  /\ CanResume(k)
  /\ LET turn == ops[k].data.turn
         existing == [i \in 1..Len(memories) |-> memories[i].embedding]
         result == classify(cfg, turn, existing, Embed(turn.text))
     IN ops' = Append(RemoveAt(ops, k),
                      [ops[k] EXCEPT !.pc = "classify",
                                     !.data = [turn |-> turn,
                                               result |-> result]])
  /\ ret' = NoRet
  /\ UNCHANGED <<cfg, now, memories, initialized, dirty,
                 writesSinceConsolidation, lastConsolidation,
                 consolidateTimer, file, live, nextId, started, hist>>

\* process(): the classification is in; an accepted turn is stored.
ResumeProcessStore(k) ==
  /\ ops[k].op = "process"
  /\ ops[k].pc = "classify"
  /\ CanResume(k)
  /\ LET turn == ops[k].data.turn
         result == ops[k].data.result
     IN IF result.shouldRemember
        THEN /\ Store(RemoveAt(ops, k), "process", ops[k].cid, turn.text,
                      Embed(turn.text), AutoOptions(cfg, result),
                      [NoValue EXCEPT !.result = result])
             /\ UNCHANGED started
        ELSE /\ ops' = RemoveAt(ops, k)
             /\ ret' = [Returned("process", ops[k].cid, FALSE)
                          EXCEPT !.value.result = result]
             /\ UNCHANGED <<cfg, now, memories, initialized, dirty,
                            writesSinceConsolidation, lastConsolidation,
                            consolidateTimer, file, live, nextId, started,
                            hist>>

\* recall(query, options)
CallRecall ==
  \E q \in RecallQueries :
    CallEmbed("recall", [text |-> q, options |-> DefaultRecall])

\* recall(): the embedding arrives; the memories returned are touched.
ResumeRecall(k) ==
  /\ ops[k].op = "recall"
  /\ CanResume(k)
  /\ LET sel == Recalled(memories, Embed(ops[k].data.text),
                         ops[k].data.options)
     IN /\ memories' = Touch(memories, sel, now)
        /\ dirty' = (dirty \/ sel # {})
  /\ ops' = RemoveAt(ops, k)
  /\ live' = LiveOf(memories', ops', live)
  /\ ret' = [Returned("recall", ops[k].cid, FALSE)
               EXCEPT !.value.results =
                 RecallResults(memories, Embed(ops[k].data.text),
                               ops[k].data.options)]
  /\ UNCHANGED <<cfg, now, initialized, writesSinceConsolidation,
                 lastConsolidation, consolidateTimer, file, nextId, started,
                 hist>>

\* forget(query)
CallForget ==
  \E q \in ForgetQueries : CallEmbed("forget", [text |-> q])

\* forget(): the embedding arrives; the memories at or above the threshold
\* are dropped.
ResumeForget(k) ==
  /\ ops[k].op = "forget"
  /\ CanResume(k)
  /\ LET q == Embed(ops[k].data.text)
         Keeps(m) == ForgetKeeps(q, m)
         kept == SelectSeq(memories, Keeps)
     IN /\ memories' = kept
        /\ dirty' = (dirty \/ Len(kept) < Len(memories))
        /\ hist' = [hist EXCEPT
                      !.gone = @ \cup (Ids(memories) \ Ids(kept)),
                      !.forgotten = @ \cup (Ids(memories) \ Ids(kept))]
        /\ ret' = [Returned("forget", ops[k].cid, FALSE)
                     EXCEPT !.value.removed = Len(memories) - Len(kept)]
  /\ ops' = RemoveAt(ops, k)
  /\ live' = LiveOf(memories', ops', live)
  /\ UNCHANGED <<cfg, now, initialized, writesSinceConsolidation,
                 lastConsolidation, consolidateTimer, file, nextId, started>>

\* A consolidation starts on the store's current sequence.
StartConsolidate(cid, parent) ==
  /\ ops' = Append(ops, ConsolidateCall(cfg, memories, now, cid, parent))
  /\ live' = LiveOf(memories, ops', live)
  /\ started' = started + 1
  /\ ret' = NoRet
  /\ UNCHANGED <<cfg, now, memories, initialized, dirty,
                 writesSinceConsolidation, lastConsolidation,
                 consolidateTimer, file, nextId, hist>>

\* consolidate(), called by the user.
CallConsolidate ==
  /\ initialized
  /\ CanCall
  /\ StartConsolidate(started + 1, "api")

\* The interval timer fires: its callback calls consolidate().  A timer
\* fires when no continuation is ready to run, so what is suspended then is
\* waiting for I/O, and a consolidation that makes no LLM call installs its
\* result before any of it resumes.
TimerFires ==
  /\ consolidateTimer.intervals > 0
  /\ ~HopPending
  /\ CanCall
  /\ LET job == ConsolidateCall(cfg, memories, now, 0, "timer")
     IN ops' = IF IsHop(job) THEN <<job>> \o ops ELSE Append(ops, job)
  /\ live' = LiveOf(memories, ops', live)
  /\ started' = started + 1
  /\ ret' = NoRet
  /\ UNCHANGED <<cfg, now, memories, initialized, dirty,
                 writesSinceConsolidation, lastConsolidation,
                 consolidateTimer, file, nextId, hist>>

\* Consolidator.consolidate: the LLM has answered for every cluster; Phases
\* 4 and 5 run and the promise resolves.
ResumeLLM(k) ==
  /\ ops[k].op = "consolidate"
  /\ ops[k].pc = "llm"
  /\ CanResume(k)
  /\ LET cc == ConsolidatorConfig(cfg)
         h == [ops[k].data EXCEPT !.current = Refresh(@, live)]
     IN \E responses \in ResponseSeqs(Len(h.clusters)) :
          LET r == ConsolidateTail(cc, h, responses, now)
          IN ops' = Append(RemoveAt(ops, k),
                           [ops[k] EXCEPT
                              !.pc = "await",
                              !.data = [inputIds |-> Ids(h.input),
                                        memories |-> r.memories,
                                        report |-> r.report]])
  /\ live' = LiveOf(memories, ops', live)
  /\ ret' = NoRet
  /\ UNCHANGED <<cfg, now, memories, initialized, dirty,
                 writesSinceConsolidation, lastConsolidation,
                 consolidateTimer, file, nextId, started, hist>>

\* consolidate(): the consolidator's result replaces the store's sequence,
\* and save() suspends at its import.
ResumeInstall(k) ==
  /\ ops[k].op = "consolidate"
  /\ ops[k].pc = "await"
  /\ CanResume(k)
  /\ LET result == Refresh(ops[k].data.memories, live)
     IN /\ memories' = Materialize(result, nextId)
        /\ nextId' = nextId + Copies(result, Len(result))
        /\ hist' = [hist EXCEPT
                      !.gone = @ \cup (ops[k].data.inputIds \ Ids(result))]
  /\ dirty' = TRUE
  /\ writesSinceConsolidation' = 0
  /\ lastConsolidation' = ops[k].data.report.timestamp
  /\ ops' = Append(RemoveAt(ops, k),
                   [ops[k] EXCEPT
                      !.pc = "import", !.data = <<>>,
                      !.value = IF ops[k].parent = "api"
                                THEN ops[k].data.report ELSE @])
  /\ live' = LiveOf(memories', ops', live)
  /\ ret' = NoRet
  /\ UNCHANGED <<cfg, now, initialized, consolidateTimer, file, started>>

\* save(): the module is imported; the nodes are built from the store's
\* sequence of this moment, and writeEngramFile is awaited.
ResumeSaveImport(k) ==
  /\ ops[k].pc = "import"
  /\ CanResume(k)
  /\ ops' = Append(RemoveAt(ops, k),
                   [ops[k] EXCEPT !.pc = "write",
                                  !.data = SaveNodes(memories)])
  /\ ret' = NoRet
  /\ UNCHANGED <<cfg, now, memories, initialized, dirty,
                 writesSinceConsolidation, lastConsolidation,
                 consolidateTimer, file, live, nextId, started, hist>>

\* save(): the file is written and dirty is cleared; consolidate() or
\* close() returns, and with it the store call that awaited it.
ResumeSaveWrite(k) ==
  /\ ops[k].pc = "write"
  /\ CanResume(k)
  /\ file' = [NoFile EXCEPT !.exists = TRUE, !.nodes = ops[k].data]
  /\ dirty' = FALSE
  /\ ops' = RemoveAt(ops, k)
  /\ ret' = IF ops[k].parent = "api"
            THEN [Returned(ops[k].op, ops[k].cid, FALSE)
                    EXCEPT !.value = ops[k].value]
            ELSE IF ops[k].parent \in {"remember", "process"}
            THEN [Returned(ops[k].parent, ops[k].cid, TRUE)
                    EXCEPT !.value = ops[k].value]
            ELSE NoRet
  /\ UNCHANGED <<cfg, now, memories, initialized,
                 writesSinceConsolidation, lastConsolidation,
                 consolidateTimer, live, nextId, started, hist>>

\* The failures of the embedder and of the file system that a run may meet.
MaxFaults == 1

\* embedder.embed rejects: remember, process, recall or forget rejects with
\* it, having done nothing.
EmbedFails(k) ==
  /\ ops[k].pc = "embed"
  /\ CanResume(k)
  /\ hist.faults < MaxFaults
  /\ hist' = [hist EXCEPT !.faults = @ + 1]
  /\ ops' = RemoveAt(ops, k)
  /\ ret' = Threw(ops[k].op, ops[k].cid)
  /\ UNCHANGED <<cfg, now, memories, initialized, dirty,
                 writesSinceConsolidation, lastConsolidation,
                 consolidateTimer, file, live, nextId, started>>

\* What the caller of a save sees when the save has rejected: consolidate()
\* and the store call awaiting it reject too; the timer's and the write
\* threshold's consolidations swallow the error.
SaveThrew(o) ==
  IF o.parent = "api" THEN Threw(o.op, o.cid)
  ELSE IF o.parent \in {"remember", "process"}
  THEN [Threw(o.parent, o.cid) EXCEPT !.value = o.value]
  ELSE NoRet

\* save(): writeEngramFile throws; the catch block writes the memories of
\* this moment as JSON, which load() cannot read as nodes, and clears
\* dirty.
ResumeSaveFallback(k) ==
  /\ ops[k].pc = "write"
  /\ CanResume(k)
  /\ hist.faults < MaxFaults
  /\ hist' = [hist EXCEPT !.faults = @ + 1]
  /\ file' = [NoFile EXCEPT !.exists = TRUE, !.json = memories]
  /\ dirty' = FALSE
  /\ ops' = RemoveAt(ops, k)
  /\ ret' = IF ops[k].parent = "api"
            THEN [Returned(ops[k].op, ops[k].cid, FALSE)
                    EXCEPT !.value = ops[k].value]
            ELSE IF ops[k].parent \in {"remember", "process"}
            THEN [Returned(ops[k].parent, ops[k].cid, TRUE)
                    EXCEPT !.value = ops[k].value]
            ELSE NoRet
  /\ UNCHANGED <<cfg, now, memories, initialized,
                 writesSinceConsolidation, lastConsolidation,
                 consolidateTimer, live, nextId, started>>

\* save(): writeEngramFile throws and so does the writeFile of the catch
\* block; save() rejects and dirty stays set.
ResumeSaveFails(k) ==
  /\ ops[k].pc = "write"
  /\ CanResume(k)
  /\ hist.faults < MaxFaults
  /\ hist' = [hist EXCEPT !.faults = @ + 1]
  /\ ops' = RemoveAt(ops, k)
  /\ ret' = SaveThrew(ops[k])
  /\ UNCHANGED <<cfg, now, memories, initialized, dirty,
                 writesSinceConsolidation, lastConsolidation,
                 consolidateTimer, file, live, nextId, started>>

\* close(): the timer of the current handle is cleared; a dirty store is
\* saved.
CallClose ==
  /\ CanCall
  /\ started' = started + 1
  /\ consolidateTimer' =
       IF consolidateTimer.handle
       THEN [handle |-> FALSE, intervals |-> consolidateTimer.intervals - 1]
       ELSE consolidateTimer
  /\ IF dirty
     THEN /\ ops' = Append(ops, NewOp("close", "import", started + 1, "api",
                                      <<>>))
          /\ ret' = NoRet
     ELSE /\ ret' = Returned("close", started + 1, FALSE)
          /\ UNCHANGED ops
  /\ UNCHANGED <<cfg, now, memories, initialized, dirty,
                 writesSinceConsolidation, lastConsolidation, file, live,
                 nextId, hist>>

\* save(), called by the user: nothing to do for a clean store whose file
\* exists; no ensureInit().
CallSave ==
  /\ CanCall
  /\ started' = started + 1
  /\ IF ~dirty /\ file.exists
     THEN /\ ret' = Returned("save", started + 1, FALSE)
          /\ UNCHANGED ops
     ELSE /\ ops' = Append(ops, NewOp("save", "import", started + 1, "api",
                                      <<>>))
          /\ ret' = NoRet
  /\ UNCHANGED <<cfg, now, memories, initialized, dirty,
                 writesSinceConsolidation, lastConsolidation,
                 consolidateTimer, file, live, nextId, hist>>

\* stats() and export(): synchronous reads of this.memories, without
\* ensureInit().
CallStats ==
  /\ CanCall
  /\ started' = started + 1
  /\ \E op \in {"stats", "export"} : ret' = Returned(op, started + 1, FALSE)
  /\ UNCHANGED <<cfg, now, memories, initialized, dirty,
                 writesSinceConsolidation, lastConsolidation,
                 consolidateTimer, file, ops, live, nextId, hist>>

\* Days pass.
Tick ==
  /\ hist.ticks < MaxTicks
  /\ ~HopPending
  /\ now' = now + TickDays
  /\ hist' = [hist EXCEPT !.ticks = @ + 1]
  /\ ret' = NoRet
  /\ UNCHANGED <<cfg, memories, initialized, dirty,
                 writesSinceConsolidation, lastConsolidation,
                 consolidateTimer, file, ops, live, nextId, started>>

Next ==
  \/ CallInit
  \/ \E k \in 1..Len(ops) : ResumeInit(k)
  \/ CallBeforeInit
  \/ CallRemember
  \/ \E k \in 1..Len(ops) : ResumeRemember(k)
  \/ CallProcess
  \/ \E k \in 1..Len(ops) : ResumeProcessEmbed(k)
  \/ \E k \in 1..Len(ops) : ResumeProcessStore(k)
  \/ CallRecall
  \/ \E k \in 1..Len(ops) : ResumeRecall(k)
  \/ CallForget
  \/ \E k \in 1..Len(ops) : ResumeForget(k)
  \/ CallConsolidate
  \/ TimerFires
  \/ \E k \in 1..Len(ops) : ResumeLLM(k)
  \/ \E k \in 1..Len(ops) : ResumeInstall(k)
  \/ \E k \in 1..Len(ops) : ResumeSaveImport(k)
  \/ \E k \in 1..Len(ops) : ResumeSaveWrite(k)
  \/ CallClose
  \/ CallSave
  \/ CallStats
  \/ Tick

Spec == Init /\ [][Next]_vars

(***************************************************************************)
(* Calls in sequence: a caller that awaits each call before it makes the   *)
(* next.  The interval timer and the consolidations that store() starts    *)
(* without awaiting them run beside the calls as they do in Spec.          *)
(***************************************************************************)
\* No call is in flight: what is suspended was started by the timer or by
\* the write threshold.
Idle == \A k \in 1..Len(ops) : ops[k].parent \in {"timer", "threshold"}

SeqNext ==
  \/ Idle /\ CallInit
  \/ \E k \in 1..Len(ops) : ResumeInit(k)
  \/ Idle /\ CallBeforeInit
  \/ Idle /\ CallRemember
  \/ \E k \in 1..Len(ops) : ResumeRemember(k)
  \/ Idle /\ CallProcess
  \/ \E k \in 1..Len(ops) : ResumeProcessEmbed(k)
  \/ \E k \in 1..Len(ops) : ResumeProcessStore(k)
  \/ Idle /\ CallRecall
  \/ \E k \in 1..Len(ops) : ResumeRecall(k)
  \/ Idle /\ CallForget
  \/ \E k \in 1..Len(ops) : ResumeForget(k)
  \/ Idle /\ CallConsolidate
  \/ TimerFires
  \/ \E k \in 1..Len(ops) : ResumeLLM(k)
  \/ \E k \in 1..Len(ops) : ResumeInstall(k)
  \/ \E k \in 1..Len(ops) : ResumeSaveImport(k)
  \/ \E k \in 1..Len(ops) : ResumeSaveWrite(k)
  \/ Idle /\ CallClose
  \/ Idle /\ CallSave
  \/ Idle /\ CallStats
  \/ Tick

SeqSpec == Init /\ [][SeqNext]_vars

\* The turn passes the classifier's early rejections.
PassesEarlyRejections(turn) ==
  turn.userLen >= 10 /\ ~turn.skip /\ ~turn.greeting /\ ~turn.filler

\* The memories that process stored.
AutoMemories(mems) == {i \in 1..Len(mems) : mems[i].source = "auto"}

\* C11: Dedup guard.  With calls awaited one after another, when process
\* comes back from the classifier with a turn that passes the early
\* rejections and whose embedding is more similar than deduplicateThreshold
\* to a memory of the store, nothing is stored and the verdict returned has
\* shouldRemember false, the reason "duplicate" and the importance and tags
\* of the rules; and the store never holds the one accepted turn twice.
C11_DedupGuard ==
  [][/\ \A k \in 1..Len(ops) :
          (/\ ops[k].op = "process"
           /\ ops[k].pc = "classify"
           /\ ~\E j \in 1..Len(ops') : ops'[j].op = "process"
           /\ PassesEarlyRejections(ops[k].data.turn)
           /\ \E i \in 1..Len(memories) :
                CosGT(Embed(ops[k].data.turn.text), memories[i].embedding,
                      cfg.deduplicateThreshold))
            => /\ memories' = memories
               /\ ret'.op = "process"
               /\ ret'.ok
               /\ ~ret'.stored
               /\ ~ret'.value.result.shouldRemember
               /\ ret'.value.result.reason = "duplicate"
               /\ ret'.value.result.importance
                    = RuleImportance(ops[k].data.turn)
               /\ ret'.value.result.suggestedTags
                    = RuleTags(ops[k].data.turn)
     /\ Cardinality(AutoMemories(memories')) <= 1]_vars

\* A second process call of the accepted turn has returned "duplicate", and
\* the store holds the memory of the first.
C11_Witness ==
  /\ ret.op = "process"
  /\ ret.ok
  /\ ret.value.result.reason = "duplicate"
  /\ ret.value.result.importance = 85
  /\ \E i \in AutoMemories(memories) : memories[i].content.key = "t1"

(***************************************************************************)
(* Writes in sequence: a caller that remembers one text after another and  *)
(* waits for the store to be idle between two calls.                       *)
(***************************************************************************)
MaxWrites == 100

\* The stores the constructor makes when autoConsolidate is omitted, true,
\* an object without everyNWrites, or an object with everyNWrites 3.
WriteConfigs ==
  {constructor(o, FALSE, 0 - 1) :
     o \in {OmittedOption, BooleanOption(TRUE), ObjectOption(0, 0 - 1, 0),
            ObjectOption(3, 0 - 1, 0)}}

\* The store after init() without a file.
WriteInit ==
  /\ cfg \in WriteConfigs
  /\ now = Clock0
  /\ memories = <<>>
  /\ initialized = TRUE
  /\ dirty = FALSE
  /\ writesSinceConsolidation = 0
  /\ lastConsolidation = 0
  /\ consolidateTimer = [handle |-> TRUE, intervals |-> 1]
  /\ file = NoFile
  /\ ops = <<>>
  /\ live = NoLive
  /\ nextId = 0
  /\ started = 0
  /\ ret = NoRet
  /\ hist = Hist0

\* remember(content) on an idle store, from the call to the end of store().
WriteRemember ==
  /\ ops = <<>>
  /\ started < MaxWrites
  /\ started' = started + 1
  /\ Store(<<>>, "remember", started + 1, TextOf("t3"), Embed(TextOf("t3")),
           NoOptions, NoValue)

WriteNext ==
  \/ WriteRemember
  \/ \E k \in 1..Len(ops) : ResumeInstall(k)
  \/ \E k \in 1..Len(ops) : ResumeSaveImport(k)
  \/ \E k \in 1..Len(ops) : ResumeSaveWrite(k)

WriteSpec == WriteInit /\ [][WriteNext]_vars

\* The write threshold in force: everyNWrites, or 100 when it is not given.
EffectiveEveryNWrites(c) ==
  IF c.everyNWrites = 0 THEN DEFAULT_everyNWrites ELSE c.everyNWrites

\* C5: Write-threshold trigger.  With auto-consolidation enabled, once
\* writesSinceConsolidation has reached everyNWrites (100 when not given) a
\* consolidation has been started: the counter stands at the threshold only
\* while that consolidation is in flight.
C5_WriteThreshold ==
  (cfg.autoConsolidate
     /\ writesSinceConsolidation >= EffectiveEveryNWrites(cfg))
    => \E k \in 1..Len(ops) : ops[k].op = "consolidate"

(***************************************************************************)
(* Properties of the facade (checked under Spec).                          *)
(***************************************************************************)
\* C1: Size bound.  When a remember call, an accepted process call or a
\* consolidate call returns, the store holds at most maxMemories memories.
C1_SizeBound ==
  (/\ ret.op \in {"remember", "process", "consolidate"}
   /\ ret.ok
   /\ ret.op = "process" => ret.stored)
    => Len(memories) <= cfg.maxMemories

\* C2: No lost write.  Every memory that has been in the store is still in
\* it, unless forget dropped it or the dedup/summarize phases of a
\* consolidation that had it in its input removed it.
C2_NoLostWrite ==
  \A id \in hist.ever : id \in Ids(memories) \/ id \in hist.gone

\* What close() writes for a sequence and init() of a fresh store reads back
\* at instant t.
SaveThenLoad(mems, t) == LoadNodes(SaveNodes(mems), 0, t)

\* Two sequences hold the same ids in the same order, each with equal
\* content, tags, importance, tier, createdAt, lastAccessed, accessCount and
\* source.
SameMemories(a, b) ==
  /\ Len(a) = Len(b)
  /\ \A i \in 1..Len(a) :
       /\ a[i].id = b[i].id
       /\ a[i].content = b[i].content
       /\ a[i].tags = b[i].tags
       /\ a[i].importance = b[i].importance
       /\ a[i].tier = b[i].tier
       /\ a[i].createdAt = b[i].createdAt
       /\ a[i].lastAccessed = b[i].lastAccessed
       /\ a[i].accessCount = b[i].accessCount
       /\ a[i].source = b[i].source

\* C3: Round-trip.  In every state of an initialized store, saving the
\* memories and loading them into a fresh store yields the same sequence.
C3_RoundTrip ==
  initialized => SameMemories(SaveThenLoad(memories, now), memories)

\* C4: At most one consolidation is in flight at a time.
C4_AtMostOneConsolidation ==
  Cardinality({k \in 1..Len(ops) : ops[k].op = "consolidate"}) <= 1

\* The tier of the memory id in a sequence, as a rank (the one nearest HOT,
\* should the sequence hold the id twice).
RankOf(mems, id) ==
  LET ranks == {TierRank(mems[i].tier) : i \in {j \in 1..Len(mems) : mems[j].id = id}}
  IN CHOOSE r \in ranks : \A x \in ranks : r <= x

\* C7: Tier monotonicity.  In no step of an initialized store (no init still
\* loading) does a memory's tier move toward HOT; a tier changes only when a
\* consolidation's result is installed; and a memory that was never in the
\* store before enters HOT.
C7_TierMonotonicity ==
  [][(initialized /\ \A k \in 1..Len(ops) : ops[k].op # "init") =>
       /\ \A id \in Ids(memories) \cap Ids(memories') :
            /\ RankOf(memories', id) >= RankOf(memories, id)
            /\ RankOf(memories', id) # RankOf(memories, id) =>
                 \E k \in 1..Len(ops) :
                   ops[k].op = "consolidate" /\ ops[k].pc = "await"
       /\ \A j \in 1..Len(memories') :
            memories'[j].id \notin hist.ever => memories'[j].tier = HOT]_vars

\* C12: Dedup before storage under overlapping calls.  In no step does
\* process append a memory whose embedding is more similar than
\* deduplicateThreshold to a memory that is in the store at that moment.
C12_DedupUnderOverlap ==
  [][\A j \in 1..Len(memories') :
       (memories'[j].source = "auto" /\ memories'[j].id \notin hist.ever)
         => \A i \in 1..Len(memories) :
              ~CosGT(memories[i].embedding, memories'[j].embedding,
                     cfg.deduplicateThreshold)]_vars

\* C13: forget(query, threshold) deletes exactly the memories whose cosine
\* similarity to the query exceeds the threshold (one whose similarity
\* equals it is kept), keeps the others in their order and returns the
\* number deleted; when nothing matches it returns 0 and leaves the memory
\* sequence and the dirty flag as they were.
C13_ForgetExact ==
  [][\A k \in 1..Len(ops) :
       (ops[k].op = "forget" /\ ret'.op = "forget" /\ ret'.ok
        /\ ret'.cid = ops[k].cid)
         => LET q == Embed(ops[k].data.text)
                Exceeds(m) == CosGT(q, m.embedding, DEFAULT_forgetThreshold)
                Others(m) == ~Exceeds(m)
            IN /\ memories' = SelectSeq(memories, Others)
               /\ ret'.value.removed = Len(memories) - Len(memories')
               /\ (\A i \in 1..Len(memories) : Others(memories[i]))
                    => /\ ret'.value.removed = 0
                       /\ memories' = memories
                       /\ dirty' = dirty]_vars

\* C14: Forgotten memories stay forgotten.  Once a forget call has returned
\* having deleted a memory, no memory with that id is in the store, also
\* when a consolidation that was in flight during the forget completes.
C14_ForgottenStayForgotten ==
  \A id \in hist.forgotten : id \notin Ids(memories)

(***************************************************************************)
(* recall alone: recall applied, with options drawn from a bounded set, to  *)
(* an initialized store whose memories are drawn from a bounded set.        *)
(***************************************************************************)
MaxQueries == 1

\* A drawn memory of the given tier, importance and text; the texts t0 and
\* t3 carry the tag "decision", the others the tag "preference".
QueryMemory(i, tier, importance, text) ==
  [id |-> i, obj |-> i, content |-> text, embedding |-> Embed(text),
   tags |-> IF text.key \in {"t0", "t3"} THEN <<"decision">>
            ELSE <<"preference">>,
   importance |-> importance, tier |-> tier, createdAt |-> Clock0 - i,
   lastAccessed |-> Clock0 - i, accessCount |-> 0,
   source |-> UNDEFINED, metadata |-> NoMeta]

QuerySeqs(n) ==
  {[i \in 1..n |-> QueryMemory(i, f[i][1], f[i][2], f[i][3])] :
     f \in [1..n -> MemoryTier \X {10, 50} \X Texts]}

\* The options the callers pass to recall.
QueryOptions ==
  {DefaultRecall,
   [DefaultRecall EXCEPT !.limit = 1],
   [DefaultRecall EXCEPT !.limit = 2, !.tiers = {WARM, COLD}],
   [DefaultRecall EXCEPT !.tags = {"decision"}, !.minScore = 30],
   [DefaultRecall EXCEPT !.limit = 2, !.decayBoost = FALSE]}

QueryInit ==
  /\ cfg = DefaultConfig
  /\ now = Clock0
  /\ \E n \in 0..MaxMems : memories \in QuerySeqs(n)
  /\ initialized = TRUE
  /\ dirty = FALSE
  /\ writesSinceConsolidation = 0
  /\ lastConsolidation = 0
  /\ consolidateTimer = NoTimer
  /\ file = NoFile
  /\ ops = <<>>
  /\ live = NoLive
  /\ nextId = MaxMems
  /\ started = 0
  /\ ret = NoRet
  /\ hist = Hist0

\* recall(query, options) with any of the options.
QueryRecall ==
  /\ started < MaxQueries
  /\ \E q \in RecallQueries, options \in QueryOptions :
       CallEmbed("recall", [text |-> q, options |-> options])

QueryNext ==
  \/ QueryRecall
  \/ \E k \in 1..Len(ops) : ResumeRecall(k)

QuerySpec == QueryInit /\ [][QueryNext]_vars

\* The step is the return of the recall call suspended as ops[k].
RecallReturns(k) ==
  ops[k].op = "recall" /\ ret'.op = "recall" /\ ret'.ok
    /\ ret'.cid = ops[k].cid

\* The score of the claim, in units of 1 / (SIM_UNIT * 100 * SCORE_UNIT):
\* cosine x tier boost (only if decayBoost) x (1 + 0.2 x importance).
ClaimScore(q, m, ropts) ==
  cosineSimilarity(q, m.embedding)
    * (IF ~ropts.decayBoost THEN 100
       ELSE CASE m.tier = HOT -> 110 [] m.tier = WARM -> 100
              [] m.tier = COLD -> 95 [] m.tier = ARCHIVE -> 85)
    * (500 + m.importance)

\* The positions of the memories that pass the tier filter and the tag
\* filter and whose score is at least minScore.
Eligible(mems, q, ropts) ==
  {i \in 1..Len(mems) :
     /\ ropts.tiers # {} => mems[i].tier \in ropts.tiers
     /\ ropts.tags # {} => \E t \in ropts.tags : t \in SeqToSet(mems[i].tags)
     /\ ClaimScore(q, mems[i], ropts) >= ropts.minScore * 625 * 500}

\* C15: recall returns exactly the first `limit` entries of the list of the
\* memories that pass the tier and tag filters and reach minScore, sorted by
\* descending score, equal scores in insertion order; an empty store yields
\* an empty result.
C15_RecallResult ==
  [][\A k \in 1..Len(ops) :
       RecallReturns(k) =>
         LET q == Embed(ops[k].data.text)
             ropts == ops[k].data.options
             el == Eligible(memories, q, ropts)
             r == ret'.value.results
             sc == [i \in 1..Len(memories) |->
                      ClaimScore(q, memories[i], ropts)]
             Ahead(i, j) == sc[i] > sc[j] \/ (sc[i] = sc[j] /\ i < j)
             got == {r[a].pos : a \in 1..Len(r)}
         IN /\ Len(r) = Min2(ropts.limit, Cardinality(el))
            /\ got \subseteq el
            /\ \A a \in 1..Len(r) :
                 /\ r[a].id = memories[r[a].pos].id
                 /\ r[a].score = sc[r[a].pos]
            /\ \A a, b \in 1..Len(r) : a < b => Ahead(r[a].pos, r[b].pos)
            /\ \A i \in el \ got : \A j \in got : Ahead(j, i)
            /\ memories = <<>> => r = <<>>]_vars

\* recall has returned two of three memories, the later one first, and left
\* out a memory that passes the filters.
C15_Witness ==
  /\ ret.op = "recall"
  /\ ret.ok
  /\ Len(memories) = 3
  /\ Len(ret.value.results) = 2
  /\ ret.value.results[1].pos > ret.value.results[2].pos
  /\ \E i \in 1..3 :
       /\ i \notin {ret.value.results[a].pos : a \in 1..2}
       /\ memories[i].tier = WARM
       /\ ret.value.results[2].score > 0
       /\ cosineSimilarity(Embed(TextOf("t0")), memories[i].embedding) > 0

\* C16: recall touches access metadata only.  In the step in which recall
\* returns, accessCount of every returned memory rises by 1 and its
\* lastAccessed becomes the current instant; every other memory, every other
\* field, the membership and order of the store and
\* writesSinceConsolidation stay as they were; dirty is set when a memory is
\* returned.
C16_RecallTouchesOnly ==
  [][\A k \in 1..Len(ops) :
       RecallReturns(k) =>
         LET r == ret'.value.results
             got == {r[a].pos : a \in 1..Len(r)}
         IN /\ Len(memories') = Len(memories)
            /\ \A i \in 1..Len(memories) :
                 /\ i \in got =>
                      /\ memories'[i].accessCount = memories[i].accessCount + 1
                      /\ memories'[i].lastAccessed = now
                 /\ i \notin got => memories'[i] = memories[i]
                 /\ memories'[i] =
                      [memories[i] EXCEPT
                         !.accessCount = memories'[i].accessCount,
                         !.lastAccessed = memories'[i].lastAccessed]
            /\ writesSinceConsolidation' = writesSinceConsolidation
            /\ got # {} => dirty']_vars

\* recall has returned one memory of three: it has one access, at the
\* current instant, the others have none, and the store is dirty.
C16_Witness ==
  /\ ret.op = "recall"
  /\ ret.ok
  /\ Len(memories) = 3
  /\ Len(ret.value.results) = 1
  /\ dirty
  /\ \A i \in 1..3 :
       IF i = ret.value.results[1].pos
       THEN memories[i].accessCount = 1 /\ memories[i].lastAccessed = now
       ELSE memories[i].accessCount = 0 /\ memories[i].lastAccessed < now

\* No id is twice in the sequence.
UniqueIds(mems) == Cardinality(Ids(mems)) = Len(mems)

\* C17: Access monotonicity.  In no step does accessCount decrease or
\* lastAccessed move backwards for a memory that stays in the store, also
\* when a consolidation that was in flight while recall returned the memory
\* installs its result.
C17_AccessMonotonic ==
  [][(UniqueIds(memories) /\ UniqueIds(memories')) =>
       \A i \in 1..Len(memories), j \in 1..Len(memories') :
         memories'[j].id = memories[i].id =>
           /\ memories'[j].accessCount >= memories[i].accessCount
           /\ memories'[j].lastAccessed >= memories[i].lastAccessed]_vars

\* The public operations of the store (init apart).
PublicOps ==
  {"bootstrap", "process", "remember", "recall", "forget", "consolidate",
   "stats", "export", "save", "close"}

\* C18: NotInitialized.  Every public operation called before init fails
\* with the not-initialized error and changes neither the store nor the
\* file.
C18_NotInitialized ==
  [][(~initialized /\ started' = started + 1 /\ ret'.op \in PublicOps)
       => /\ ~ret'.ok
          /\ memories' = memories
          /\ file' = file]_vars

\* C19: init is idempotent.  After one or more init calls, sequential or
\* overlapping, the store holds each memory of the file once and at most one
\* consolidation timer is armed.
C19_InitIdempotent ==
  /\ \A i, j \in 1..Len(memories) : memories[i].id = memories[j].id => i = j
  /\ consolidateTimer.intervals <= 1

(***************************************************************************)
(* Calls in sequence with failures: the embedder or the file system may    *)
(* fail, MaxFaults times in a run.                                         *)
(***************************************************************************)
FaultNext ==
  \/ SeqNext
  \/ \E k \in 1..Len(ops) : EmbedFails(k)
  \/ \E k \in 1..Len(ops) : ResumeSaveFallback(k)
  \/ \E k \in 1..Len(ops) : ResumeSaveFails(k)

FaultSpec == Init /\ [][FaultNext]_vars

\* C20: A failed operation commits nothing.  When remember or process has
\* returned an error, the store holds no memory pushed by that call.
C20_FailedCommitsNothing ==
  (ret.op \in {"remember", "process"} /\ ~ret.ok)
    => ret.value.id \notin Ids(memories)

(***************************************************************************)
(* The dirty flag and the file.                                            *)
(***************************************************************************)
\* A save() is in progress: some operation is between the entry of save()
\* and the end of its write.
SaveInProgress == \E k \in 1..Len(ops) : ops[k].pc \in {"import", "write"}

\* The file holds the sequence mems: it has the nodes that save() writes
\* for mems.  A store that has never held a memory needs no file.
FileHolds(mems) ==
  IF file.exists THEN file.nodes = SaveNodes(mems) ELSE mems = <<>>

\* C21: Dirty flag soundness.  Whenever the store is initialized, no save
\* is in progress and dirty is false, the file holds the current memory
\* sequence.
C21_DirtySound ==
  (initialized /\ ~SaveInProgress /\ ~dirty) => FileHolds(memories)

\* C22: The JSON fallback is loadable.  When the file is in the JSON form
\* that save() wrote after a failed container write, an init() of a new
\* store on that file restores the memories that were saved.
C22_FallbackLoadable ==
  (file.exists /\ file.json # <<>>)
    => SameMemories(load(file, 0, now), file.json)

(***************************************************************************)
(* Damaged files and out-of-range options: the facade with calls awaited   *)
(* one after another, on a file whose first node lacks its content, lacks  *)
(* its embedding or has an embedding of another length, and with remember  *)
(* calls that pass any importance.                                         *)
(***************************************************************************)
\* The length of the embedder's vectors.
Dimensions == 2

\* The nodes of the earlier session with the first one damaged: written
\* without content, without embedding (read as new Float32Array(0)), or by
\* an embedder of another dimension.
NoContent(node) == [node EXCEPT !.content = [@ EXCEPT !.len = 0]]
NoEmbedding(node) == [node EXCEPT !.embedding = <<>>]
ShortEmbedding(node) == [node EXCEPT !.embedding = <<25>>]
EdgeFiles ==
  LET nodes == SaveNodes(EarlierSession) IN
  {[NoFile EXCEPT !.exists = TRUE, !.nodes = <<first, nodes[2]>>] :
     first \in {NoContent(nodes[1]), NoEmbedding(nodes[1]),
                ShortEmbedding(nodes[1])}}

\* RememberOptions.importance as callers pass it: absent, in range, above 1,
\* below 0.
EdgeImportances == {0 - 1, 100, 150, 0 - 20}

EdgeInit ==
  /\ cfg \in Configs
  /\ now = Clock0
  /\ memories = <<>>
  /\ initialized = FALSE
  /\ dirty = FALSE
  /\ writesSinceConsolidation = 0
  /\ lastConsolidation = 0
  /\ consolidateTimer = NoTimer
  /\ file \in EdgeFiles
  /\ ops = <<>>
  /\ live = NoLive
  /\ nextId = Len(EarlierSession)
  /\ started = 0
  /\ ret = NoRet
  /\ hist = Hist0

\* remember(content, {importance})
EdgeRemember ==
  \E importance \in EdgeImportances :
    CallEmbed("remember",
              [text |-> TextOf("t1"),
               options |-> [NoOptions EXCEPT !.importance = importance]])

EdgeNext ==
  \/ SeqNext
  \/ Idle /\ EdgeRemember

EdgeSpec == EdgeInit /\ [][EdgeNext]_vars

\* C23: Load skips malformed nodes.  After init, and after any later
\* sequence of operations, every stored embedding has the length D of the
\* embedder's vectors.
C23_OneEmbeddingLength ==
  initialized =>
    \A i \in 1..Len(memories) : Len(memories[i].embedding) = Dimensions

\* C24: Every memory in the store has importance in [0,1] and
\* accessCount >= 0, whatever importance the callers of remember pass.
C24_ImportanceInRange ==
  \A i \in 1..Len(memories) :
    /\ 0 <= memories[i].importance
    /\ memories[i].importance <= 100
    /\ memories[i].accessCount >= 0

(***************************************************************************)
(* Conversation turns: one process call on an initialized store, for any   *)
(* of the turns the patterns tell apart, under the auto-remember           *)
(* configurations.                                                         *)
(***************************************************************************)
MaxTurns == 1

\* The seven content rules, in the order of classify.
RuleOrder ==
  <<"explicit", "decision", "lesson", "preference", "identity", "factual",
    "technical">>
RuleNames == {RuleOrder[i] : i \in 1..Len(RuleOrder)}

\* The turn whose trimmed user utterance has userLen characters, that
\* matches the early pattern `early` (if any) and the rules `rules`, with or
\* without a command word in the assistant utterance, with or without code,
\* wordCount words, and text as its combined content.
TurnOf(userLen, early, rules, command, code, wordCount, text) ==
  [userLen |-> userLen,
   skip |-> early = "skip",
   greeting |-> early = "greeting",
   filler |-> early = "filler",
   explicitUser |-> "explicit" \in rules,
   explicitAssistant |-> command,
   decision |-> "decision" \in rules,
   lesson |-> "lesson" \in rules,
   preference |-> "preference" \in rules,
   identity |-> "identity" \in rules,
   factual |-> "factual" \in rules,
   technical |-> "technical" \in rules,
   wordCount |-> wordCount,
   code |-> code,
   text |-> text]

\* User utterances of 2 and of 40 characters; at most two rules matching;
\* 12, 40 and 250 words.
DrawnTurns ==
  {TurnOf(userLen, early, rules, command, code, wordCount, text) :
     userLen \in {2, 40},
     early \in {"none", "skip", "greeting", "filler"},
     rules \in {r \in SUBSET RuleNames : Cardinality(r) <= 2},
     command \in BOOLEAN,
     code \in BOOLEAN,
     wordCount \in {12, 40, 250},
     text \in {TextOf("t1"), TextOf("t3")}}

\* TraceConfig.autoRemember: false, or an object with minImportance and
\* defaultTags; no auto-consolidation.
TurnConfigs ==
  LET base == constructor(BooleanOption(FALSE), FALSE, 0 - 1) IN
  {[base EXCEPT !.autoRemember = FALSE]}
    \cup {[base EXCEPT !.minImportance = mi, !.defaultTags = dt] :
            mi \in {0, 30, 90}, dt \in {<<>>, <<"chat">>}}

\* The store before the call: empty, or holding the text t1.
TurnStores ==
  {<<>>, <<NewMemory(1, TextOf("t1"), Embed(TextOf("t1")), NoOptions, Clock0)>>}

TurnInit ==
  /\ cfg \in TurnConfigs
  /\ now = Clock0
  /\ memories \in TurnStores
  /\ initialized = TRUE
  /\ dirty = FALSE
  /\ writesSinceConsolidation = 0
  /\ lastConsolidation = 0
  /\ consolidateTimer = NoTimer
  /\ file = NoFile
  /\ ops = <<>>
  /\ live = NoLive
  /\ nextId = 1
  /\ started = 0
  /\ ret = NoRet
  /\ hist = Hist0

TurnProcess ==
  /\ started < MaxTurns
  /\ \E turn \in DrawnTurns : Process(turn)

TurnNext ==
  \/ TurnProcess
  \/ \E k \in 1..Len(ops) : ResumeProcessEmbed(k)
  \/ \E k \in 1..Len(ops) : ResumeProcessStore(k)

TurnSpec == TurnInit /\ [][TurnNext]_vars

\* process comes back from the classifier for the operation ops[k] and
\* returns in this step.
ProcessReturns(k) ==
  /\ ops[k].op = "process"
  /\ ops[k].pc = "classify"
  /\ ops' = RemoveAt(ops, k)
  /\ ret'.op = "process"

\* The turn's embedding is more similar than deduplicateThreshold to a
\* stored one.
IsDuplicate(turn) ==
  \E i \in 1..Len(memories) :
    CosGT(Embed(turn.text), memories[i].embedding, cfg.deduplicateThreshold)

\* The memory that process appends for a verdict.
AppendedAsClaimed(m, verdict) ==
  /\ m.tier = HOT
  /\ m.importance = verdict.importance
  /\ m.tags = cfg.defaultTags \o verdict.suggestedTags
  /\ m.source = "auto"
  /\ DOMAIN m.metadata = {"reason"}
  /\ m.metadata["reason"] = verdict.reason

\* process appends exactly one memory, as claimed, if and only if the
\* returned verdict has shouldRemember = true, and leaves the sequence
\* unchanged otherwise and when auto-remember is disabled.
AppendsIffRemembered ==
  /\ \A k \in 1..Len(ops) :
       ProcessReturns(k) =>
         LET verdict == ret'.value.result IN
         IF verdict.shouldRemember
         THEN /\ Len(memories') = Len(memories) + 1
              /\ SubSeq(memories', 1, Len(memories)) = memories
              /\ AppendedAsClaimed(memories'[Len(memories')], verdict)
         ELSE memories' = memories
  /\ (ret'.op = "process" /\ ~cfg.autoRemember)
       => /\ memories' = memories
          /\ ~ret'.value.result.shouldRemember

\* C25 as stated: moreover shouldRemember is true exactly when the turn
\* passed the early rejections, is not a duplicate, and its importance is
\* at least minImportance.
C25_Original_ProcessAppends ==
  [][/\ AppendsIffRemembered
     /\ \A k \in 1..Len(ops) :
          ProcessReturns(k) =>
            LET verdict == ret'.value.result
                turn == ops[k].data.turn
            IN verdict.shouldRemember
                 <=> (/\ PassesEarlyRejections(turn)
                      /\ ~IsDuplicate(turn)
                      /\ verdict.importance >= cfg.minImportance)]_vars

\* The turn has an importance signal: a rule or the code detection matched,
\* or it has more than 30 words.
HasSignal(turn) ==
  \/ \E r \in {turn.explicitUser, turn.decision, turn.lesson, turn.preference,
               turn.identity, turn.factual, turn.technical, turn.code} : r
  \/ turn.wordCount > 30

\* C25: process appends exactly one memory if and only if the returned
\* verdict has shouldRemember = true, which is when the turn passed the
\* early rejections, is not a duplicate, has an importance signal and its
\* importance is at least minImportance; the appended memory is HOT with
\* the verdict's importance, the default tags followed by the suggested
\* tags, source "auto" and metadata.reason the verdict's reason; otherwise,
\* and always when auto-remember is disabled, the sequence is unchanged.
C25_ProcessAppends ==
  [][/\ AppendsIffRemembered
     /\ \A k \in 1..Len(ops) :
          ProcessReturns(k) =>
            LET verdict == ret'.value.result
                turn == ops[k].data.turn
            IN verdict.shouldRemember
                 <=> (/\ PassesEarlyRejections(turn)
                      /\ ~IsDuplicate(turn)
                      /\ HasSignal(turn)
                      /\ verdict.importance >= cfg.minImportance)]_vars

\* process has stored a turn under default tags, after a memory that was
\* there before.
C25_Witness ==
  /\ ret.op = "process"
  /\ ret.value.result.shouldRemember
  /\ Len(memories) = 2
  /\ memories[2].source = "auto"
  /\ memories[2].tags = <<"chat", "decision">>
  /\ memories[2].importance = 85

\* C26 as stated: a turn whose trimmed user utterance matches the
\* acknowledgment pattern is rejected with shouldRemember = false,
\* importance 0, no tags and reason "acknowledgment/filler".
C26_Original_AckReason ==
  [][\A k \in 1..Len(ops) :
       (ProcessReturns(k) /\ ops[k].data.turn.skip) =>
         ret'.value.result =
           [shouldRemember |-> FALSE, importance |-> 0,
            reason |-> "acknowledgment/filler", suggestedTags |-> <<>>]]_vars

\* C26: A turn whose trimmed user utterance matches the acknowledgment
\* pattern is rejected with shouldRemember = false, importance 0 and no
\* tags; the reason is "too short" when the utterance has fewer than 10
\* characters and "acknowledgment/filler" when it has 10 or more.
C26_AckRejected ==
  [][\A k \in 1..Len(ops) :
       (ProcessReturns(k) /\ ops[k].data.turn.skip) =>
         /\ memories' = memories
         /\ ret'.value.result =
              [shouldRemember |-> FALSE, importance |-> 0,
               reason |-> IF ops[k].data.turn.userLen < 10 THEN "too short"
                          ELSE "acknowledgment/filler",
               suggestedTags |-> <<>>]]_vars

\* process has rejected an acknowledgment of 10 or more characters.
C26_Witness ==
  /\ ret.op = "process"
  /\ ~ret.value.result.shouldRemember
  /\ ret.value.result.reason = "acknowledgment/filler"

\* The rules of RuleOrder that a turn matches, by their positions.
MatchedRules(turn) ==
  LET hit == <<turn.explicitUser, turn.decision, turn.lesson, turn.preference,
               turn.identity, turn.factual, turn.technical>>
  IN {i \in 1..Len(RuleOrder) : hit[i]}

\* The score floors and the reasons of the rules, as the claim gives them.
ClaimFloors == <<95, 85, 85, 80, 80, 60, 50>>
ClaimReasons ==
  <<"explicit remember command", "contains decision",
    "contains lesson/insight", "contains preference",
    "contains identity information", "contains factual/config data",
    "contains technical discussion">>

\* C27: For a turn that is not rejected early and is not a duplicate and
\* that matches at least one rule, the verdict's importance is the maximum
\* score floor over the matched rules and its reason is the reason of the
\* first matched rule in rule order; a turn with decision language and no
\* explicit command gets importance >= 0.85, tag `decision` and reason
\* "contains decision".
C27_MaxFloorFirstReason ==
  [][\A k \in 1..Len(ops) :
       LET turn == ops[k].data.turn
           verdict == ret'.value.result
           matched == MatchedRules(turn)
       IN (/\ ProcessReturns(k)
           /\ PassesEarlyRejections(turn)
           /\ ~IsDuplicate(turn)
           /\ matched # {})
            => /\ \E i \in matched :
                    /\ verdict.importance = ClaimFloors[i]
                    /\ \A j \in matched : ClaimFloors[j] <= ClaimFloors[i]
               /\ \E i \in matched :
                    /\ verdict.reason = ClaimReasons[i]
                    /\ \A j \in matched : i <= j
               /\ (turn.decision /\ ~turn.explicitUser)
                    => /\ verdict.importance >= 85
                       /\ \E a \in 1..Len(verdict.suggestedTags) :
                            verdict.suggestedTags[a] = "decision"
                       /\ verdict.reason = "contains decision"]_vars

\* process has returned the verdict of a turn with decision and preference
\* language: the floor of the decision rule, which is the greater, and the
\* reason of the decision rule, which comes first.
C27_Witness ==
  /\ ret.op = "process"
  /\ ret.value.result.suggestedTags = <<"decision", "preference">>
  /\ ret.value.result.importance = 85
  /\ ret.value.result.reason = "contains decision"

(***************************************************************************)
(* The archive phase: Consolidator.consolidate applied to sequences of up  *)
(* to two memories of any tier, tagged `consolidated` or not, with         *)
(* contents of 20, 200 and 250 characters and importance 0.1.              *)
(***************************************************************************)
ArchiveTags == {<<>>, <<"consolidated">>}

ArchiveSeqs(n) ==
  {[i \in 1..n |->
      [DrawnMemory(i, f[i][1], <<10, 0>>, f[i][3])
         EXCEPT !.tags = f[i][2]]] :
     f \in {g \in [1..n -> TierAges \X ArchiveTags \X Texts] :
              \A i \in 1..(n - 1) : g[i][1][2] >= g[i + 1][1][2]}}

ArchiveInit ==
  /\ cfg \in ConsConfigs
  /\ now = Clock0
  /\ \E n \in 0..(MaxMems - 1) : memories \in ArchiveSeqs(n)
  /\ initialized = TRUE
  /\ dirty = FALSE
  /\ writesSinceConsolidation = 0
  /\ lastConsolidation = 0
  /\ consolidateTimer = NoTimer
  /\ file = NoFile
  /\ ops = <<>>
  /\ live = NoLive
  /\ nextId = 0
  /\ started = 0
  /\ ret = NoRet
  /\ hist = Hist0

ArchiveSpec == ArchiveInit /\ [][ConsNext]_vars

IsConsolidated(m) == "consolidated" \in SeqToSet(m.tags)

\* The pass that produced the current sequence replaced m's content by a
\* summary.
SummarizedNow(m) ==
  /\ IsConsolidated(m)
  /\ "consolidatedAt" \in DOMAIN m.metadata
  /\ m.metadata["consolidatedAt"] = hist.at
  /\ m.content.key = "summary"

V4 == <<0 - 7, 24>>

\* The embeddings of the four memories, in their order: the second is a
\* near duplicate of the first (V1) or its neighbour (V2).
ClusterVectors(second) == <<V0, second, V3, V4>>

ClusterSeqs ==
  LET n == Len(ClusterVectors(V1)) IN
  {[i \in 1..n |->
      [DrawnMemory(i, f[i][1], f[i][2], TextOf("t3"))
         EXCEPT !.embedding = ClusterVectors(second)[i]]] :
     f \in {g \in [1..n -> TierAges \X Scores] :
              \A i \in 1..(n - 1) : g[i][1][2] >= g[i + 1][1][2]},
     second \in {V1, V2}}

ClusterInit ==
  /\ cfg \in ConsConfigs
  /\ now = Clock0
  /\ memories \in ClusterSeqs
  /\ initialized = TRUE
  /\ dirty = FALSE
  /\ writesSinceConsolidation = 0
  /\ lastConsolidation = 0
  /\ consolidateTimer = NoTimer
  /\ file = NoFile
  /\ ops = <<>>
  /\ live = NoLive
  /\ nextId = 0
  /\ started = 0
  /\ ret = NoRet
  /\ hist = Hist0

ClusterSpec == ClusterInit /\ [][ConsNext]_vars

\* The LLM call failed or came back with 10 characters or fewer.
NoSummary(r) == r.kind = "error" \/ r.len <= SUMMARY_MIN

DayThresholds == {<<0, 0, 0>>, <<2, 3, 4>>}

DecayConfigs ==
  {DefaultConfig}
    \cup {Spread(DefaultConfig,
                 [hotDays |-> d[1], warmDays |-> d[2], coldDays |-> d[3]]) :
            d \in DayThresholds}

\* Ages in days, around the thresholds and the 5 days of the access boost.
DecayAges == {0, 2, 5, 8, 12, 40, 100, 500, 1200}

\* Importance and accessCount of the two memories.
DecayScores == {0, 50, 100} \X {0, 4, 10, 20}

DecayPairs ==
  {<<DrawnMemory(1, <<tier, age>>, sc1, TextOf("t0")),
     DrawnMemory(2, <<tier, age>>, sc2, TextOf("t3"))>> :
     tier \in MemoryTier, age \in DecayAges,
     sc1 \in DecayScores, sc2 \in DecayScores}

DecayInit ==
  /\ cfg \in DecayConfigs
  /\ now = Clock0
  /\ memories \in DecayPairs
  /\ initialized = TRUE
  /\ dirty = FALSE
  /\ writesSinceConsolidation = 0
  /\ lastConsolidation = 0
  /\ consolidateTimer = NoTimer
  /\ file = NoFile
  /\ ops = <<>>
  /\ live = NoLive
  /\ nextId = 0
  /\ started = 0
  /\ ret = NoRet
  /\ hist = Hist0

DecaySpec == DecayInit /\ [][ConsNext]_vars

\* The last pass moved the memory with this id to another tier.
Advanced(id) == ById(memories, id).tier # ById(hist.input, id).tier

\* The day threshold that a memory of a tier has to exceed to advance.
ThresholdOf(cc, tier) ==
  CASE tier = HOT -> cc.hotDays
    [] tier = WARM -> cc.warmDays
    [] OTHER -> cc.coldDays

\* C30: Access and importance only slow decay.  Of two memories of the
\* same tier and age, if the one with accessCount and importance at least
\* as large advances a tier in a pass, the other advances too; accesses
\* beyond the tenth change nothing, and no boost is more than 5 days: a
\* memory below ARCHIVE whose age less 5 days, divided by 1 + 2 *
\* importance, exceeds its tier's threshold advances.
C30_SlowsDecayOnly ==
  hist.passes >= 1 =>
    /\ Len(memories) = Len(hist.input)
    /\ \A i, j \in 1..Len(hist.input) :
         LET a == hist.input[i]
             b == hist.input[j]
         IN (/\ a.tier = b.tier
             /\ a.createdAt = b.createdAt
             /\ a.accessCount >= b.accessCount
             /\ a.importance >= b.importance)
              => /\ Advanced(a.id) => Advanced(b.id)
                 /\ (b.accessCount >= ACCESS_BOOST_CAP
                     /\ a.importance = b.importance)
                      => (Advanced(a.id) <=> Advanced(b.id))
    /\ \A i \in 1..Len(hist.input) :
         LET a == hist.input[i]
             days == ThresholdOf(ConsolidatorConfig(cfg), a.tier)
         IN (/\ a.tier # ARCHIVE
             /\ 100 * (hist.at - a.createdAt - 5)
                  > days * (100 + 2 * a.importance))
              => Advanced(a.id)

\* A pass under the default thresholds has advanced two HOT memories of one
\* age, one accessed 20 times and more important than the other.
C30_Witness ==
  /\ hist.passes = 1
  /\ cfg = DefaultConfig
  /\ \E i, j \in 1..Len(hist.input) :
       LET a == hist.input[i]
           b == hist.input[j]
       IN /\ a.tier = HOT
          /\ b.tier = HOT
          /\ a.createdAt = b.createdAt
          /\ a.accessCount = 20
          /\ a.accessCount > b.accessCount
          /\ a.importance > b.importance
          /\ Advanced(a.id)
          /\ Advanced(b.id)

\* C31 as stated: a command word that occurs only in the assistant
\* utterance of a turn that is not rejected early and is not a duplicate
\* gives importance >= 0.95, the tag `explicit` and the reason "explicit
\* remember command".
C31_Original_ExplicitAnywhere ==
  [][\A k \in 1..Len(ops) :
       LET turn == ops[k].data.turn
           verdict == ret'.value.result
       IN (/\ ProcessReturns(k)
           /\ PassesEarlyRejections(turn)
           /\ ~IsDuplicate(turn)
           /\ turn.explicitAssistant
           /\ ~turn.explicitUser)
            => /\ verdict.importance >= 95
               /\ "explicit" \in SeqToSet(verdict.suggestedTags)
               /\ verdict.reason = "explicit remember command"]_vars

\* C31: The explicit-memory-command rule is matched against the trimmed
\* user utterance only: for a turn that is not rejected early and is not a
\* duplicate, the verdict has the tag `explicit` exactly when a command
\* word occurs in the user utterance, and then importance >= 0.95 and the
\* reason "explicit remember command"; a command word that occurs only in
\* the assistant utterance changes nothing in the verdict.
C31_ExplicitUserOnly ==
  [][\A k \in 1..Len(ops) :
       LET turn == ops[k].data.turn
           verdict == ret'.value.result
       IN (/\ ProcessReturns(k)
           /\ PassesEarlyRejections(turn)
           /\ ~IsDuplicate(turn))
            => /\ ("explicit" \in SeqToSet(verdict.suggestedTags))
                    <=> turn.explicitUser
               /\ turn.explicitUser
                    => /\ verdict.importance >= 95
                       /\ verdict.reason = "explicit remember command"
               /\ verdict =
                    classify(cfg, [turn EXCEPT !.explicitAssistant = FALSE],
                             <<>>, Embed(turn.text))]_vars

\* The classifier has come back for a turn with decision language whose
\* only command word is in the assistant utterance: the verdict is that of
\* the decision rule, without the tag `explicit`.
C31_Witness ==
  \E k \in 1..Len(ops) :
    /\ ops[k].op = "process"
    /\ ops[k].pc = "classify"
    /\ ops[k].data.turn.explicitAssistant
    /\ ~ops[k].data.turn.explicitUser
    /\ ops[k].data.result.shouldRemember
    /\ ops[k].data.result.suggestedTags = <<"decision">>
    /\ ops[k].data.result.importance = 85
    /\ ops[k].data.result.reason = "contains decision"

(***************************************************************************)
(* Merging: one call of Consolidator.consolidate on four memories whose    *)
(* embeddings form a chain (each is close to the next one only), with keep *)
(* scores that order the memories otherwise than their importance does,    *)
(* under the default cluster size with an LLM too.                         *)
(***************************************************************************)
\* Importance and accessCount: the last has the lowest importance and the
\* highest keep score.
MergeScores == {<<10, 0>>, <<50, 0>>, <<10, 5>>}

MergeConfigs == ConsConfigs \cup {[DefaultConfig EXCEPT !.llm = TRUE]}

MergeSeqs ==
  LET n == Len(ClusterVectors(V1)) IN
  {[i \in 1..n |->
      [DrawnMemory(i, f[i][1], f[i][2], TextOf("t3"))
         EXCEPT !.embedding = ClusterVectors(second)[i]]] :
     f \in {g \in [1..n -> TierAges \X MergeScores] :
              \A i \in 1..(n - 1) : g[i][1][2] >= g[i + 1][1][2]},
     second \in {V1, V2}}

MergeInit ==
  /\ cfg \in MergeConfigs
  /\ now = Clock0
  /\ memories \in MergeSeqs
  /\ initialized = TRUE
  /\ dirty = FALSE
  /\ writesSinceConsolidation = 0
  /\ lastConsolidation = 0
  /\ consolidateTimer = NoTimer
  /\ file = NoFile
  /\ ops = <<>>
  /\ live = NoLive
  /\ nextId = 0
  /\ started = 0
  /\ ret = NoRet
  /\ hist = Hist0

\* The one call.
MergePass == hist.passes = 0 /\ ConsPass

MergeSpec == MergeInit /\ [][MergePass]_vars

\* The members of the k-th cluster as Phases 1 to 3 left them.
MembersOf(h, k) == {h.current[i] : i \in SeqToSet(h.clusters[k])}

\* The ids of the members of the k-th cluster that are in the store.
SurvivorsOf(h, k) == {m.id : m \in {o \in MembersOf(h, k) : HasId(memories, o.id)}}

\* The clusters of the last pass whose summary was accepted.
AcceptedClusters ==
  {k \in 1..Len(hist.responses) : ~NoSummary(hist.responses[k])}

Clustered(h) == UNION {SeqToSet(h.clusters[k]) : k \in 1..Len(h.clusters)}

\* C33: The clusters of Phase 3.  With h what Phases 1 to 3 made of the
\* input: every cluster has at least minClusterSize members and no index
\* twice, its members are WARM or COLD after Phase 1, no index is in two
\* clusters, and every member is at least clusterThreshold similar to the
\* first member, the seed.  Every HOT and every ARCHIVE memory of h is in
\* the store after the pass, and Phase 4 has not summarized it.
C33_ClustersWellFormed ==
  hist.passes >= 1 =>
    LET cc == ConsolidatorConfig(cfg)
        h == ConsolidateHead(cc, hist.input, hist.at)
    IN /\ \A k \in 1..Len(hist.clusters) :
            LET cl == hist.clusters[k] IN
            /\ Len(cl) >= cc.minClusterSize
            /\ Cardinality(SeqToSet(cl)) = Len(cl)
            /\ \A n \in 1..Len(cl) :
                 /\ cl[n] \in 1..Len(h.current)
                 /\ h.current[cl[n]].tier \in {WARM, COLD}
                 /\ cosineSimilarity(h.current[cl[1]].embedding,
                                     h.current[cl[n]].embedding) * 100
                      >= cc.clusterThreshold * SIM_UNIT
            /\ \A j \in 1..Len(hist.clusters) :
                 j # k => SeqToSet(cl) \cap SeqToSet(hist.clusters[j]) = {}
       /\ \A i \in 1..Len(h.current) :
            h.current[i].tier \in {HOT, ARCHIVE} =>
              /\ HasId(memories, h.current[i].id)
              /\ ~SummarizedNow(ById(memories, h.current[i].id))
              /\ ById(memories, h.current[i].id).importance
                   = h.current[i].importance

\* A cluster of two was summarized next to a HOT memory that is as close to
\* its second member as the cluster threshold asks, and to an ARCHIVE
\* memory: the two are in the store.
C33_Witness ==
  /\ hist.passes = 1
  /\ Len(hist.clusters) = 1
  /\ AcceptedClusters = {1}
  /\ LET h == ConsolidateHead(ConsolidatorConfig(cfg), hist.input, hist.at) IN
     /\ \E i \in 1..Len(h.current) :
          /\ h.current[i].tier = HOT
          /\ CosGE(h.current[hist.clusters[1][2]].embedding,
                   h.current[i].embedding, DEFAULT_clusterThreshold)
          /\ HasId(memories, h.current[i].id)
     /\ \E i \in 1..Len(h.current) :
          /\ h.current[i].tier = ARCHIVE
          /\ HasId(memories, h.current[i].id)
     /\ Len(memories) = Len(h.current) - 1

\* C34: Phase 3 adds to a seed's cluster only candidates that come after
\* the seed: after a pass, every member of a cluster other than its seed
\* has a higher index than the seed in the sequence Phases 1 and 2 produced.
C34_OnlyLaterCandidates ==
  hist.passes >= 1 =>
    \A k \in 1..Len(hist.clusters) :
      \A n \in 2..Len(hist.clusters[k]) :
        hist.clusters[k][n] > hist.clusters[k][1]

\* The candidates that the clusters before the k-th have taken.
TakenBefore(k) == UNION {SeqToSet(hist.clusters[j]) : j \in 1..(k - 1)}

\* The candidates that the clusters seeded before index c have taken.
TakenBySeedsBefore(c) ==
  UNION {SeqToSet(hist.clusters[j]) :
           j \in {i \in 1..Len(hist.clusters) : hist.clusters[i][1] < c}}

\* What Phase 3 does.  With h what Phases 1 to 3 made of the
\* input: the k-th cluster is its seed and then, in insertion order, every
\* WARM or COLD memory that no earlier cluster has taken and that is at
\* least clusterThreshold similar to the seed, the ones before the seed
\* too; a member before the seed, and a candidate that is in no cluster,
\* is one whose own group, when it was the seed, had fewer than
\* minClusterSize members.
AllUnassignedCandidates ==
  hist.passes >= 1 =>
    LET cc == ConsolidatorConfig(cfg)
        h == ConsolidateHead(cc, hist.input, hist.at)
        cands == {i \in 1..Len(h.current) : h.current[i].tier \in {WARM, COLD}}
        near(c, free) ==
          {o \in free :
             cosineSimilarity(h.current[c].embedding, h.current[o].embedding)
               * 100 >= cc.clusterThreshold * SIM_UNIT}
        group(c) ==
          {c} \cup near(c, cands \ (TakenBySeedsBefore(c) \cup {c}))
    IN /\ \A k \in 1..Len(hist.clusters) :
            LET cl == hist.clusters[k]
                seed == cl[1]
            IN /\ SeqToSet(cl) =
                    {seed} \cup near(seed, cands \ (TakenBefore(k) \cup {seed}))
               /\ \A n \in 2..(Len(cl) - 1) : cl[n] < cl[n + 1]
               /\ \A n \in 2..Len(cl) :
                    cl[n] < seed => Cardinality(group(cl[n])) < cc.minClusterSize
       /\ Len(h.current) >= cc.minClusterSize /\ Cardinality(cands) >= cc.minClusterSize
            => \A c \in cands \ TakenBefore(Len(hist.clusters) + 1) :
                 Cardinality(group(c)) < cc.minClusterSize

\* The first candidate was close to the second only, and two are too few
\* for a cluster; the second, close to the first and the third, seeds the
\* cluster of the three.
EarlierCandidateJoins ==
  /\ hist.passes = 1
  /\ hist.clusters = << <<2, 1, 3>> >>
  /\ ConsolidatorConfig(cfg).minClusterSize = DEFAULT_minClusterSize
  /\ ~CosGE(hist.input[1].embedding, hist.input[3].embedding,
            DEFAULT_clusterThreshold)

\* C35: Phase 4 accepts a response of at least 10 characters.  After a pass
\* with an LLM, a cluster whose answer was a text of 10 characters or more
\* has one member left, with the answer as content, and a cluster whose
\* answer had fewer than 10 characters has all its members left, as they
\* were.
C35_TenCharactersAccepted ==
  hist.passes >= 1 =>
    LET cc == ConsolidatorConfig(cfg)
        h == ConsolidateHead(cc, hist.input, hist.at)
    IN \A k \in 1..Len(hist.responses) :
         LET r == hist.responses[k] IN
         IF r.kind = "text" /\ r.len >= SUMMARY_MIN
         THEN /\ Cardinality(SurvivorsOf(h, k)) = 1
              /\ \A id \in SurvivorsOf(h, k) :
                   ById(memories, id).content =
                     [key |-> "summary", len |-> r.len, cut |-> FALSE]
         ELSE r.kind = "text" =>
                \A m \in MembersOf(h, k) :
                  HasId(memories, m.id) /\ ById(memories, m.id) = m

\* The LLM answered a cluster with exactly 10 characters and every member of
\* the cluster is in the store as it was.
TenCharactersRejected ==
  /\ hist.passes = 1
  /\ Len(hist.responses) = 1
  /\ hist.responses[1] = [kind |-> "text", len |-> SUMMARY_MIN]
  /\ memories = ConsolidateHead(ConsolidatorConfig(cfg), hist.input, hist.at).current
  /\ hist.report.memoriesMerged = 0

(***************************************************************************)
(* Deduplication: one call of Consolidator.consolidate on recent memories  *)
(* that are near duplicates of each other in every pattern, chains too     *)
(* (V0 and V1, V1 and V2 are near duplicates, V0 and V2 are not), with     *)
(* equal and with different keep scores.  Nothing decays, clusters or is   *)
(* archived, so that the store after the call is what Phase 2 left.        *)
(***************************************************************************)
\* The most memories in the store.
MaxDups == 4

DedupVectors == {V0, V1, V2}

DedupSeqs(n) ==
  {[i \in 1..n |->
      [DrawnMemory(i, <<HOT, 5>>, f[i][1], TextOf("t1"))
         EXCEPT !.embedding = f[i][2]]] :
     f \in [1..n -> MergeScores \X DedupVectors]}

DedupInit ==
  /\ cfg = DefaultConfig
  /\ now = Clock0
  /\ \E n \in 1..MaxDups : memories \in DedupSeqs(n)
  /\ initialized = TRUE
  /\ dirty = FALSE
  /\ writesSinceConsolidation = 0
  /\ lastConsolidation = 0
  /\ consolidateTimer = NoTimer
  /\ file = NoFile
  /\ ops = <<>>
  /\ live = NoLive
  /\ nextId = 0
  /\ started = 0
  /\ ret = NoRet
  /\ hist = Hist0

DedupSpec == DedupInit /\ [][MergePass]_vars

\* Memories a and b are near duplicates for Phase 2.
NearDuplicates(a, b) ==
  cosineSimilarity(a.embedding, b.embedding) * 100
    > cfg.deduplicateThreshold * SIM_UNIT

\* importance + 0.1 * accessCount, in hundredths.
ClaimKeepScore(m) == m.importance + 10 * m.accessCount

\* The indices of the input of the last pass that are near duplicates of
\* the i-th.
DuplicatesOf(i) ==
  {j \in 1..Len(hist.input) :
     j # i /\ NearDuplicates(hist.input[i], hist.input[j])}

\* The i-th memory of the input of the last pass is in the store.
Survives(i) == HasId(memories, hist.input[i].id)

\* C36: The keep rule of Phase 2.  After a pass, a memory of the input whose
\* keep score is higher than that of every near duplicate of it is in the
\* store; and of two near duplicates with equal keep scores that have no
\* other near duplicate, the earlier is in the store and the later is not.
C36_DedupKeepRule ==
  hist.passes >= 1 =>
    /\ \A i \in 1..Len(hist.input) :
         (\A j \in DuplicatesOf(i) :
            ClaimKeepScore(hist.input[i]) > ClaimKeepScore(hist.input[j]))
           => Survives(i)
    /\ \A i, j \in 1..Len(hist.input) :
         /\ i < j
         /\ DuplicatesOf(i) = {j}
         /\ DuplicatesOf(j) = {i}
         /\ ClaimKeepScore(hist.input[i]) = ClaimKeepScore(hist.input[j])
         => Survives(i) /\ ~Survives(j)

\* The store held a pair of near duplicates with equal keep scores, and a
\* memory of low importance and many accesses after its more important
\* near duplicate: the first of the pair and the much accessed one are left.
C36_Witness ==
  /\ hist.passes = 1
  /\ Len(hist.input) = MaxDups
  /\ DuplicatesOf(1) = {2} /\ DuplicatesOf(2) = {1}
  /\ ClaimKeepScore(hist.input[1]) = ClaimKeepScore(hist.input[2])
  /\ Survives(1) /\ ~Survives(2)
  /\ DuplicatesOf(4) = {3}
  /\ hist.input[4].importance < hist.input[3].importance
  /\ Survives(4) /\ ~Survives(3)

\* C37: Phase 2 drops nothing without keeping a near duplicate.  After a
\* pass, every memory of the input that is not in the store is a near
\* duplicate of a memory of the input that is.
C37_RemovedHasSurvivingDuplicate ==
  hist.passes >= 1 =>
    \A i \in 1..Len(hist.input) :
      ~Survives(i) => \E j \in DuplicatesOf(i) : Survives(j)

\* A chain of three with rising keep scores: the first is close to the
\* second only, the second to the third; the third alone is in the store.
ChainLosesFirst ==
  /\ hist.passes = 1
  /\ Len(hist.input) = 3
  /\ DuplicatesOf(1) = {2}
  /\ DuplicatesOf(3) = {2}
  /\ ~Survives(1) /\ ~Survives(2) /\ Survives(3)

\* Phase 5 has cut the content of m in some pass.
IsTruncated(m) == "truncated" \in DOMAIN m.metadata

\* C38: Archive truncation is stable across passes.  After a pass, a memory
\* that was truncated before the pass has the content and the
\* originalLength it had before it, and memoriesArchived counts the
\* memories that the pass truncated for the first time.
C38_TruncationStable ==
  hist.passes >= 1 =>
    /\ \A i \in 1..Len(hist.input) :
         LET old == hist.input[i] IN
         IsTruncated(old) /\ HasId(memories, old.id) =>
           /\ ById(memories, old.id).content = old.content
           /\ ById(memories, old.id).metadata["originalLength"]
                = old.metadata["originalLength"]
    /\ hist.report.memoriesArchived =
         Cardinality({i \in 1..Len(memories) :
                        /\ IsTruncated(memories[i])
                        /\ ~IsTruncated(ById(hist.input, memories[i].id))})

\* The second pass has cut again a content of 203 characters that the first
\* had cut from 250: it is what it was, its originalLength is 203 and the
\* report counts it.
TruncatedTwice ==
  /\ hist.passes = 2
  /\ \E i \in 1..Len(hist.input) :
       LET old == hist.input[i] IN
       /\ IsTruncated(old)
       /\ old.metadata["originalLength"] = 250
       /\ HasId(memories, old.id)
       /\ ById(memories, old.id).content = old.content
       /\ ById(memories, old.id).metadata["originalLength"] = ARCHIVE_KEEP + 3
  /\ hist.report.memoriesArchived >= 1
  /\ hist.prevReport.memoriesArchived >= 1

\* The tier histogram h sums to n.
HistogramSums(h, n) == h[HOT] + h[WARM] + h[COLD] + h[ARCHIVE] = n

\* The totals of a report add up.
ReportAddsUp(r) ==
  /\ r.after.total = r.before.total - r.duplicatesRemoved - r.memoriesMerged
  /\ HistogramSums(r.before.byTier, r.before.total)
  /\ HistogramSums(r.after.byTier, r.after.total)

\* C39: Report accounting.  When the facade's consolidate has returned a
\* report: after.total = before.total - duplicatesRemoved - memoriesMerged,
\* each tier histogram sums to its total, writesSinceConsolidation is 0 and
\* lastConsolidation is the timestamp of the report.
C39_ReportAccounting ==
  ret.op = "consolidate" /\ ret.ok =>
    /\ ReportAddsUp(ret.value)
    /\ writesSinceConsolidation = 0
    /\ lastConsolidation = ret.value.timestamp

\* The report of a consolidator pass adds up, and its memoriesDecayed is the
\* number of memories whose tier Phase 1 changed.
PassReportAddsUp ==
  hist.passes >= 1 =>
    LET cc == ConsolidatorConfig(cfg)
        decayed == decay(cc, hist.input, hist.at).memories
    IN /\ ReportAddsUp(hist.report)
       /\ hist.report.before.total = Len(hist.input)
       /\ hist.report.after.total = Len(memories)
       /\ hist.report.memoriesDecayed =
            Cardinality({i \in 1..Len(hist.input) :
                           decayed[i].tier # hist.input[i].tier})

\* The report that the facade's consolidate returns adds up.
ReturnedReportAddsUp ==
  ret.op = "consolidate" /\ ret.ok => ReportAddsUp(ret.value)

\* consolidate has returned the report of a pass made 40 days ago, and
\* lastConsolidation is the instant of the pass that the timer started
\* while the first was saving.
StaleLastConsolidation ==
  /\ ret.op = "consolidate" /\ ret.ok
  /\ ReportAddsUp(ret.value)
  /\ writesSinceConsolidation = 0
  /\ lastConsolidation = ret.value.timestamp + TickDays

\* C40: The frame of a consolidation.  After a pass, every memory of the
\* result was in the input, with the same embedding, createdAt,
\* lastAccessed, accessCount and source; the memories of the result are in
\* the order they had in the input; and an object of the input that is in
\* the result is as it was given: whatever a phase changed is a copy.
C40_ConsolidationFrame ==
  hist.passes >= 1 =>
    /\ \A i \in 1..Len(memories) :
         LET m == memories[i] IN
         /\ HasId(hist.input, m.id)
         /\ LET old == ById(hist.input, m.id) IN
            /\ m.embedding = old.embedding
            /\ m.createdAt = old.createdAt
            /\ m.lastAccessed = old.lastAccessed
            /\ m.accessCount = old.accessCount
            /\ m.source = old.source
            /\ m.obj # 0 => m = old
    /\ \A i, j \in 1..Len(memories) :
         i < j => FindIndex(hist.input, memories[i].id)
                    < FindIndex(hist.input, memories[j].id)

\* One pass has dropped a duplicate, moved a memory to another tier and
\* summarized a cluster into a much accessed member: the two memories left
\* are an object of the input and a copy.
C40_Witness ==
  /\ hist.passes = 1
  /\ hist.report.duplicatesRemoved = 1
  /\ hist.report.memoriesMerged = 1
  /\ hist.report.memoriesDecayed >= 1
  /\ Len(memories) = 2
  /\ \E i, j \in 1..Len(memories) :
       /\ memories[i].obj # 0
       /\ memories[j].obj = 0
       /\ SummarizedNow(memories[j])
       /\ memories[j].accessCount = 5

====
